---- MODULE Spec2Model ----
(***************************************************************************)
(* fbscraper: the conversation directory crawl and the message history     *)
(* crawl of FBDumper (src/fbscraper/dumper.py) and the download scheduler  *)
(* of FBParser (src/fbscraper/parser.py), as state machines.               *)
(*                                                                         *)
(* Three specifications share the module, one per component:               *)
(*   SpecDir   FBDumper.__init__ / get_all_convers_metadata                *)
(*   SpecDump  FBDumper.dump                                               *)
(*   SpecDL    FBParser downloads: executor, dl_file, wait_threads         *)
(* Each one holds the variables of the other components constant.          *)
(***************************************************************************)
EXTENDS Integers, Sequences, FiniteSets, TLC

VARIABLES
    \* ---- get_all_convers_metadata (locals) and the attributes __init__ sets
    src_n,              \* the remote side: conversations held by each partition
    dir_pc,             \* "crawl" | "done" | "failed"
    convers_status,     \* index into Statuses: the partition being crawled
    list_offset,        \* local `offset` of get_all_convers_metadata
    convers,            \* local dict `convers`: thread_fbid -> summary
    participants,       \* local dict `participants`: fbid -> name
    self_convers,       \* attribute FBDumper.convers: <<>> until set, then <<dict>>
    self_participants,  \* attribute FBDumper.participants, likewise
    dir_exc,            \* exception that left __init__, "none" if none
    list_requests,      \* log of list requests: status, offset, records returned, fault
    json_data,          \* local json_data: what the last response carried (participants, other users)
    \* ---- FBDumper.dump
    convers_ids,        \* attribute FBDumper.convers_ids (constructor argument)
    dump_pc,            \* "idle" | "crawl" | "written" | "done" | "failed"
    dump_ids,           \* local `convers_ids` of dump: the list being iterated
    ci,                 \* position in dump_ids of the conversation `c`
    messages,           \* local `messages`: the accumulator, a list of timestamps
    offset,             \* local `offset`
    timestamp,          \* local `timestamp` (0 stands for the initial "0")
    responses,          \* responses received for `c` so far, in order
    last_request,       \* data_for_msgs of the latest history request, <<>> if none
    history_requests,   \* number of history requests issued in the run
    requested_ids,      \* identifiers a history request was issued for
    dump_files,         \* output: identifier -> message list written to its dump
    dump_written,       \* positions of dump_ids whose crawl wrote its dump
    dump_exc,           \* exception that left dump, "none" if none
    \* ---- FBParser in download mode: executor, dl_file, wait_threads
    to_stdout,          \* argument to_stdout of parse and wait_threads
    will_fail,          \* the remote side: submissions whose transfer raises
    parse_pc,           \* "parse" | "process_msgs" | "as_completed" | "join" |
                        \* "returned" | "raised" | "aborted"
    futures,            \* self.futures in submission order: the state of each future
    collected,          \* futures as_completed has yielded, in that order
    raised_from,        \* the future whose exception left wait_threads, 0 if none
    loading_cnt,        \* loading_thread.cnt
    run_flag,           \* loading_thread.run_flag
    loading_state,      \* "none" | "running" | "terminated"
    file_idx,           \* position in infile_json of the file being parsed
    earlier_futures,    \* work items the executor holds from earlier files
    malformed,          \* the file system: positions of infile_json that are not JSON
    reports,            \* positions of infile_json whose six reports were written
    \* ---- FBParser.dl_file, one call per worker thread
    quit,               \* attribute FBParser.quit
    content,            \* the remote side: what iter_content yields to each call
    dl_pc,              \* position of each call of dl_file
    fetched,            \* chunks each call has taken from iter_content
    file,               \* chunks each call has written to its file, in order
    at_quit,            \* <<dl_pc, file>> when quit was set, <<>> before
    \* ---- FBParser.parse, process_msgs and the check_and_get_* functions
    mode,               \* attribute FBParser.mode: "report" | "dl"
    data,               \* attribute FBParser.data: the requested categories
    infiles,            \* content of the files of infile_json: the messages json.load returns
    json_msgs,          \* attribute FBParser.json_msgs: the loaded messages
    msg_idx,            \* position in json_msgs of the next `msg` of process_msgs
    msgs,               \* attribute FBParser.msgs: the messages stream, a list of records
    pics,               \* attribute FBParser.pics: lines of the pictures stream
    gifs,               \* attribute FBParser.gifs
    videos,             \* attribute FBParser.videos
    files,              \* attribute FBParser.files
    links,              \* attribute FBParser.links
    cnt_msgs,           \* attribute FBParser.cnt_msgs
    cnt_pics,           \* attribute FBParser.cnt_pics
    cnt_gifs,           \* attribute FBParser.cnt_gifs
    cnt_videos,         \* attribute FBParser.cnt_videos
    cnt_files,          \* attribute FBParser.cnt_files
    cnt_links,          \* attribute FBParser.cnt_links
    dl_requests,        \* arguments (url, filelocation) of each executor.submit
    \* ---- FBDumper.__init__, FBParser.__init__ and the entry of FBParser.parse
    ctor_call,          \* the class constructed and the arguments of the call
    ctor_pc,            \* position of the call in __init__ and then in parse
    ctor_exc,           \* exception that left __init__ or parse, "none" if none
    ctor_attrs,         \* names of the instance attributes assigned so far
    ctor_requests       \* number of HTTP requests sent by the constructor

dirVars == <<src_n, dir_pc, convers_status, list_offset, convers, participants,
             self_convers, self_participants, dir_exc, list_requests, json_data>>

dumpVars == <<convers_ids, dump_pc, dump_ids, ci, messages, offset, timestamp,
              responses, last_request, history_requests, requested_ids,
              dump_files, dump_written, dump_exc>>

dlVars == <<to_stdout, will_fail, parse_pc, futures, collected, raised_from,
            loading_cnt, run_flag, loading_state, file_idx, earlier_futures,
            malformed, reports>>

xferVars == <<quit, content, dl_pc, fetched, file, at_quit>>

streamVars == <<msgs, pics, gifs, videos, files, links, cnt_msgs, cnt_pics,
                cnt_gifs, cnt_videos, cnt_files, cnt_links>>

classVars == <<mode, data, infiles, json_msgs, msg_idx, streamVars, dl_requests>>

ctorVars == <<ctor_call, ctor_pc, ctor_exc, ctor_attrs, ctor_requests>>

vars == <<dirVars, dumpVars, dlVars, xferVars, classVars, ctorVars>>

\* --------------------------------------------------------------------------
\* Bounds of the model
\* --------------------------------------------------------------------------

\* _chunk_size_convers (1000 in the source), scaled down
chunk_size_convers == 2
\* most conversations the remote side holds, over the two partitions
MaxConvers == 4
\* chunk_size of FBDumper (2000 by default), scaled down
chunk_size == 2
\* most history requests one run of dump issues in the model
MaxHistoryRequests == 3
\* threads of FBParser (4 by default): the width of the worker pool, scaled down
threads == 2
\* most Download Requests one run of parse submits
MaxDownloads == 4
\* most chunks iter_content yields for one file
MaxChunks == 2
\* most messages one input file holds
MaxMsgs == 2

\* --------------------------------------------------------------------------
\* Small helpers: Python dicts as functions
\* --------------------------------------------------------------------------

EmptyDict == <<>>

Put(d, k, v) == [x \in (DOMAIN d) \cup {k} |-> IF x = k THEN v ELSE d[x]]

Min(a, b) == IF a < b THEN a ELSE b

Max(a, b) == IF a < b THEN b ELSE a

\* --------------------------------------------------------------------------
\* make_request: the typed failure of a response
\* --------------------------------------------------------------------------

\* if "error" in json_data: raise FBResponseError(json_data["errorSummary"])
\* The argument json_data["errorSummary"] is evaluated before the raise.
make_request_mut_swallow(resp) == "none"

make_request(resp) ==
    IF resp.error
    THEN IF resp.errorSummary THEN "FBResponseError" ELSE "KeyError"
    ELSE "none"

\* The error part of a response: no indicator, or an indicator with or without
\* the summary field beside it.
ErrorParts ==
    { [error |-> FALSE, errorSummary |-> FALSE],
      [error |-> TRUE,  errorSummary |-> TRUE],
      [error |-> TRUE,  errorSummary |-> FALSE] }

\* --------------------------------------------------------------------------
\* The conversation directory: get_all_convers_metadata
\* --------------------------------------------------------------------------

Statuses == <<"inbox", "archived">>

Fbids == {"u1", "u2"}

UserNames == {<<"user", "a">>, <<"user", "b">>}

NoName == <<>>

\* identifier of the j-th conversation of partition s: distinct by construction
ThreadFbid(s, j) == <<Statuses[s], j>>

\* c["name"] of a group conversation
GroupName(id) == <<"group", id>>

\* number of records the remote side returns for a list request at offset off
PageCount(s, off) == Max(0, Min(chunk_size_convers, src_n[s] - off))

\* what one conversation summary can look like: thread_type 2 (group), 1 (direct,
\* with its other_user_fbid), or another thread_type
ThreadShapes ==
    { [thread_type |-> 2, other_user_fbid |-> "none"],
      [thread_type |-> 3, other_user_fbid |-> "none"] }
    \cup { [thread_type |-> 1, other_user_fbid |-> u] : u \in Fbids }

ParticipantRecords == [fbid : Fbids, name : UserNames]

\* json_data["payload"]["participants"] of one page: no entry or one entry
\* (an identifier can get another name from a later page)
PageParticipantLists == { <<>> } \cup { <<p>> : p \in ParticipantRecords }

\* where a page is malformed: nowhere, or the k-th participant / conversation
\* summary lacks a field
RecordFaults(nthreads, nparts) ==
    { [kind |-> "none", at |-> 0] }
    \cup { [kind |-> "bad_participant", at |-> k] : k \in 1..nparts }
    \cup { [kind |-> "bad_thread", at |-> k] : k \in 1..nthreads }

NoError == [error |-> FALSE, errorSummary |-> FALSE]

\* the responses the remote side can give to the list request (s, off): an error
\* report, a payload that lacks "threads" or "participants", or a page of the
\* conversations off+1 .. off+n of the partition
ListResponses(s, off) ==
    LET n == PageCount(s, off) IN
    { [err |-> e, fault |-> [kind |-> "none", at |-> 0], shapes |-> <<>>,
       parts |-> <<>>, first |-> off] : e \in ErrorParts \ {NoError} }
    \cup
    { [err |-> NoError, fault |-> [kind |-> k, at |-> 0], shapes |-> <<>>,
       parts |-> <<>>, first |-> off] : k \in {"no_threads", "no_participants"} }
    \cup
    UNION { { [err |-> NoError, fault |-> f, shapes |-> sh, parts |-> ps,
               first |-> off] :
                sh \in [1..n -> ThreadShapes], f \in RecordFaults(n, Len(ps)) } :
            ps \in PageParticipantLists }

MergeParticipants_mut_first_wins(parts, ps, i, bad) ==
    LET merged == IF bad \in 1..Len(ps) THEN i..(bad - 1) ELSE i..Len(ps)
        ids == { ps[k].fbid : k \in merged }
        First(u) == CHOOSE k \in merged :
                        ps[k].fbid = u /\ \A l \in merged : ps[l].fbid = u => k <= l
    IN  [exc |-> IF bad \in 1..Len(ps) THEN "KeyError" ELSE "none",
         participants |-> [u \in DOMAIN parts \cup ids |->
                              IF u \in DOMAIN parts THEN parts[u]
                              ELSE ps[First(u)].name]]

\* for participant in json_participants:
\*     participants[participant["fbid"]] = participant["name"]
\* stops with KeyError at the participant `bad` (0: none is malformed)
RECURSIVE MergeParticipants(_, _, _, _)
MergeParticipants(parts, ps, i, bad) ==
    IF i > Len(ps) THEN [exc |-> "none", participants |-> parts]
    ELSE IF i = bad THEN [exc |-> "KeyError", participants |-> parts]
    ELSE MergeParticipants(Put(parts, ps[i].fbid, ps[i].name), ps, i + 1, bad)

\* the body of `for c in json_threads` for one summary: current_convers is
\* carried from one summary of the page to the next
SetTypeAndName(cur, shape, id, parts) ==
    IF shape.thread_type = 2
    THEN [cur EXCEPT !.type = "group", !.name = GroupName(id)]
    ELSE IF shape.thread_type = 1
    THEN [cur EXCEPT !.type = "user", !.name = parts[shape.other_user_fbid]]
    ELSE cur

RECURSIVE MergeThreads(_, _, _, _, _, _, _, _)
MergeThreads(conv, cur, parts, shapes, first, s, i, bad) ==
    IF i > Len(shapes) THEN [exc |-> "none", convers |-> conv]
    ELSE IF i = bad THEN [exc |-> "KeyError", convers |-> conv]
    ELSE IF shapes[i].thread_type = 1 /\ shapes[i].other_user_fbid \notin DOMAIN parts
    THEN [exc |-> "KeyError", convers |-> conv]
    ELSE LET id == ThreadFbid(s, first + i)
             c1 == SetTypeAndName(cur, shapes[i], id, parts)
             c2 == [c1 EXCEPT !.status = Statuses[s]]
         IN MergeThreads(Put(conv, id, c2), c2, parts, shapes, first, s, i + 1, bad)

\* current_convers = {}
EmptyCurrent == [type |-> "unset", name |-> NoName, status |-> "unset"]

\* one iteration of `while not is_dumped`, from the request to the merge
ProcessPage(conv, parts, resp, s) ==
    LET raised == make_request(resp.err) IN
    IF raised # "none"
    THEN [exc |-> raised, convers |-> conv, participants |-> parts, n |-> 0]
    ELSE IF resp.fault.kind \in {"no_threads", "no_participants"}
    THEN [exc |-> "KeyError", convers |-> conv, participants |-> parts, n |-> 0]
    ELSE
      LET mp == MergeParticipants(parts, resp.parts, 1,
                    IF resp.fault.kind = "bad_participant" THEN resp.fault.at ELSE 0)
      IN IF mp.exc # "none"
         THEN [exc |-> mp.exc, convers |-> conv, participants |-> mp.participants,
               n |-> Len(resp.shapes)]
         ELSE
           LET mt == MergeThreads(conv, EmptyCurrent, mp.participants, resp.shapes,
                         resp.first, s, 1,
                         IF resp.fault.kind = "bad_thread" THEN resp.fault.at ELSE 0)
           IN [exc |-> mt.exc, convers |-> mt.convers,
               participants |-> mp.participants, n |-> Len(resp.shapes)]

\* if len(json_threads) < self._chunk_size_convers: is_dumped = True
is_dumped_mut_le(n) == n <= chunk_size_convers

is_dumped(n) == n < chunk_size_convers

\* else: offset += self._chunk_size_convers
NextListOffset_mut_one(off) == off + 1

NextListOffset(off) == off + chunk_size_convers

\* self.convers, self.participants = self.get_all_convers_metadata()
\* the attributes exist only once the crawl has returned
Attributes_mut_partial(returned, conv, parts) == <<<<conv>>, <<parts>>>>

Attributes(returned, conv, parts) ==
    IF returned THEN <<<<conv>>, <<parts>>>> ELSE <<<<>>, <<>>>>

\* the state of dump before it is called, for the requested identifiers ids
DumpNotCalled(ids) ==
    /\ convers_ids = ids
    /\ dump_pc = "idle"
    /\ dump_ids = <<>>
    /\ ci = 0
    /\ messages = <<>>
    /\ offset = 0
    /\ timestamp = 0
    /\ responses = <<>>
    /\ last_request = <<>>
    /\ history_requests = 0
    /\ requested_ids = {}
    /\ dump_files = EmptyDict
    /\ dump_written = {}
    /\ dump_exc = "none"

\* the parser before it classifies anything
ParserNotStarted ==
    /\ to_stdout = TRUE
    /\ will_fail = {}
    /\ parse_pc = "process_msgs"
    /\ futures = <<>>
    /\ collected = <<>>
    /\ raised_from = 0
    /\ loading_cnt = 0
    /\ run_flag = FALSE
    /\ loading_state = "none"
    /\ file_idx = 1
    /\ earlier_futures = <<>>
    /\ malformed = {}
    /\ reports = <<>>

\* init_parser_for_next: the streams and the counts of a file not yet classified
StreamsEmpty ==
    /\ msgs = <<>>
    /\ pics = <<>>
    /\ gifs = <<>>
    /\ videos = <<>>
    /\ files = <<>>
    /\ links = <<>>
    /\ cnt_msgs = 0
    /\ cnt_pics = 0
    /\ cnt_gifs = 0
    /\ cnt_videos = 0
    /\ cnt_files = 0
    /\ cnt_links = 0

\* a parser that has not loaded a file yet
NothingToClassify ==
    /\ mode = "dl"
    /\ data = <<"all">>
    /\ infiles = <<<<>>, <<>>>>
    /\ json_msgs = <<>>
    /\ msg_idx = 1
    /\ StreamsEmpty
    /\ dl_requests = <<>>

\* no constructor call is under observation
NoConstruction ==
    /\ ctor_call = <<>>
    /\ ctor_pc = "done"
    /\ ctor_exc = "none"
    /\ ctor_attrs = {}
    /\ ctor_requests = 0

NoTransfer ==
    /\ quit = FALSE
    /\ content = <<>>
    /\ dl_pc = <<>>
    /\ fetched = <<>>
    /\ file = <<>>
    /\ at_quit = <<>>

InitDir ==
    /\ src_n \in [1..2 -> 0..MaxConvers]
    /\ src_n[1] + src_n[2] <= MaxConvers
    /\ dir_pc = "crawl"
    /\ convers_status = 1
    /\ list_offset = 0
    /\ convers = EmptyDict
    /\ participants = EmptyDict
    /\ self_convers = <<>>
    /\ self_participants = <<>>
    /\ dir_exc = "none"
    /\ list_requests = <<>>
    /\ json_data = <<>>
    /\ DumpNotCalled(<<>>)
    /\ ParserNotStarted
    /\ NoTransfer
    /\ NothingToClassify
    /\ NoConstruction

\* One list request and the handling of its response; the last one of the
\* "archived" partition returns from get_all_convers_metadata and __init__
\* sets the two attributes.
ListRequest ==
    /\ dir_pc = "crawl"
    /\ \E resp \in ListResponses(convers_status, list_offset) :
        LET r == ProcessPage(convers, participants, resp, convers_status)
            exhausted == r.exc = "none" /\ is_dumped(r.n)
            returned == exhausted /\ convers_status = Len(Statuses)
            attrs == Attributes(returned, r.convers, r.participants)
        IN
        /\ list_requests' = Append(list_requests,
                [status |-> convers_status, offset |-> list_offset,
                 count |-> Len(resp.shapes),
                 malformed |-> r.exc = "KeyError",
                 error |-> resp.err.error])
        /\ convers' = r.convers
        /\ participants' = r.participants
        /\ dir_exc' = r.exc
        /\ dir_pc' = IF r.exc # "none" THEN "failed"
                     ELSE IF returned THEN "done" ELSE "crawl"
        /\ convers_status' = IF exhausted /\ ~returned
                             THEN convers_status + 1 ELSE convers_status
        /\ list_offset' = IF r.exc # "none" THEN list_offset
                          ELSE IF exhausted THEN 0 ELSE NextListOffset(list_offset)
        /\ self_convers' = attrs[1]
        /\ self_participants' = attrs[2]
        /\ json_data' = [participants |-> resp.parts,
                         others |-> [k \in 1..Len(resp.shapes) |->
                                        IF resp.shapes[k].thread_type = 1
                                        THEN resp.shapes[k].other_user_fbid
                                        ELSE "none"],
                         well_formed |-> resp.err = NoError /\ resp.fault.kind = "none"]
    /\ UNCHANGED <<src_n, dumpVars, dlVars, xferVars, classVars, ctorVars>>

NextDir == ListRequest

SpecDir == InitDir /\ [][NextDir]_vars

\* --------------------------------------------------------------------------
\* Properties of the directory crawl
\* --------------------------------------------------------------------------

\* positions of the list requests of partition s in the log
RequestsOf(s) == { i \in 1..Len(list_requests) : list_requests[i].status = s }

NReq(s) == Cardinality(RequestsOf(s))

\* rank of log entry i among the requests of its own partition
RankInPartition(i) ==
    Cardinality({ j \in 1..i : list_requests[j].status = list_requests[i].status })

LastOf(s) == CHOOSE i \in RequestsOf(s) : \A j \in RequestsOf(s) : j <= i

\* the crawl of partition s ended by `is_dumped = True`
Exhausted(s) == convers_status > s \/ dir_pc = "done"

IdsOfPartition(conv, s) == { id \in DOMAIN conv : conv[id].status = Statuses[s] }

SourceIds(s) == { ThreadFbid(s, j) : j \in 1..src_n[s] }

Ceil(a, b) == (a + b - 1) \div b

\* C3 as stated, for a partition that is not empty: a partition of N
\* conversations takes exactly ceil(N/pageSize) list requests and the index
\* holds exactly its N identifiers.
C3_CeilRequests ==
    \A s \in 1..Len(Statuses) :
        (Exhausted(s) /\ src_n[s] > 0) =>
            /\ NReq(s) = Ceil(src_n[s], chunk_size_convers)
            /\ IdsOfPartition(convers, s) = SourceIds(s)

\* C3 amended: a partition of N conversations takes exactly
\* floor(N/pageSize) + 1 list requests (ceil(N/pageSize) unless pageSize divides
\* N), and the index holds exactly its N identifiers, each once; the index the
\* caller sees after the crawl holds exactly the identifiers of both partitions.
C3_DirectoryComplete ==
    /\ \A s \in 1..Len(Statuses) :
        Exhausted(s) =>
            /\ NReq(s) = (src_n[s] \div chunk_size_convers) + 1
            /\ (src_n[s] % chunk_size_convers # 0 =>
                    NReq(s) = Ceil(src_n[s], chunk_size_convers))
            /\ IdsOfPartition(convers, s) = SourceIds(s)
            /\ Cardinality(IdsOfPartition(convers, s)) = src_n[s]
    /\ dir_pc = "done" =>
            /\ self_convers = <<convers>>
            /\ DOMAIN self_convers[1] = SourceIds(1) \cup SourceIds(2)

\* a partition of several pages whose last page is short and not empty was
\* crawled to its end
C3_Witness ==
    /\ dir_pc = "done"
    /\ src_n[1] = chunk_size_convers + 1
    /\ NReq(1) = 2
    /\ src_n[2] = 1

\* C4: in each partition request i carries offset (i-1)*pageSize; the partition
\* is exhausted right after the first page shorter than pageSize and never after
\* a full page; when the last non-empty page is full, exactly one more request,
\* returning no record, is issued and the partition then ends.
C4_OffsetCursor ==
    /\ \A i \in 1..Len(list_requests) :
        /\ list_requests[i].offset = (RankInPartition(i) - 1) * chunk_size_convers
        /\ (\E j \in (i+1)..Len(list_requests) :
                list_requests[j].status = list_requests[i].status)
            => list_requests[i].count = chunk_size_convers
    /\ \A s \in 1..Len(Statuses) :
        /\ Exhausted(s) =>
            /\ list_requests[LastOf(s)].count < chunk_size_convers
            /\ (src_n[s] > 0 /\ src_n[s] % chunk_size_convers = 0) =>
                 /\ list_requests[LastOf(s)].count = 0
                 /\ NReq(s) = (src_n[s] \div chunk_size_convers) + 1
                 /\ list_requests[LastOf(s) - 1].count = chunk_size_convers
        /\ (dir_pc = "crawl" /\ convers_status = s) =>
            \A i \in RequestsOf(s) : list_requests[i].count = chunk_size_convers

\* a partition whose last non-empty page was full: the extra empty page ended it
C4_Witness ==
    /\ Exhausted(1)
    /\ src_n[1] = 2 * chunk_size_convers
    /\ NReq(1) = 3
    /\ list_requests[3].count = 0
    /\ list_requests[3].offset = 2 * chunk_size_convers

\* C8: once a directory page is malformed the crawl has failed, and neither
\* FBDumper.convers nor FBDumper.participants exists for the caller to read,
\* so nothing of that page is observable in them.
C8_MalformedPageNotVisible ==
    (\E i \in 1..Len(list_requests) : list_requests[i].malformed) =>
        /\ dir_pc = "failed"
        /\ dir_exc = "KeyError"
        /\ self_convers = <<>>
        /\ self_participants = <<>>

\* the second summary of a page was malformed after the first one had been
\* merged into the local dict
C8_Witness ==
    /\ dir_pc = "failed"
    /\ list_requests[Len(list_requests)].malformed
    /\ ThreadFbid(convers_status, list_offset + 1) \in DOMAIN convers
    /\ ThreadFbid(convers_status, list_offset + 2) \notin DOMAIN convers
    /\ DOMAIN participants # {}
    /\ self_convers = <<>>

\* --------------------------------------------------------------------------
\* The message history crawl: FBDumper.dump
\* --------------------------------------------------------------------------

\* _DICT_FB_TYPES
DICT_FB_TYPES(type) == IF type = "group" THEN "thread_fbids" ELSE "user_ids"

\* the conversations the index can hold when dump is called, and an identifier
\* that no index holds
ConversA == ThreadFbid(1, 1)

ConversB == ThreadFbid(2, 1)

ConversX == <<"inbox", 0>>

SummaryOf(id) ==
    IF id = ConversA
    THEN [type |-> "group", name |-> GroupName(id), status |-> "inbox"]
    ELSE [type |-> "user", name |-> <<"user", "a">>, status |-> "archived"]

\* the indexes a finished directory crawl can have left in FBDumper.convers
Indexes == { [id \in S |-> SummaryOf(id)] : S \in SUBSET {ConversA, ConversB} }

\* the lists of identifiers the caller can ask for; the empty one asks for all
RequestedLists ==
    UNION { [1..k -> {ConversA, ConversB, ConversX}] : k \in 0..2 }

\* for c in self.convers: convers_ids.append(c)   (a dict keeps insertion
\* order: the inbox partition, then the archived one)
KeysInOrder(d) == SelectSeq(<<ConversA, ConversB>>, LAMBDA id : id \in DOMAIN d)

\* if self.convers_ids: ... else: every conversation of the index
ResolveIds(ids, index) == IF ids # <<>> THEN ids ELSE KeysInOrder(index)

\* timestamps of message records
Timestamps == 1..3

\* json_data["payload"]["actions"]: the records of one response, by timestamp
Chunks == UNION { [1..k -> Timestamps] : k \in 0..2 }

\* the responses the remote side can give to a history request: an error
\* report, a payload without "actions", or a chunk with or without the
\* end_of_history flag beside it
HistoryResponses ==
    { [err |-> e, has_actions |-> FALSE, actions |-> <<>>, end |-> FALSE] :
        e \in ErrorParts \ {NoError} }
    \cup
    { [err |-> NoError, has_actions |-> FALSE, actions |-> <<>>, end |-> b] :
        b \in BOOLEAN }
    \cup
    { [err |-> NoError, has_actions |-> TRUE, actions |-> a, end |-> b] :
        a \in Chunks, b \in BOOLEAN }

\* build_data
build_data(convers_id, convers_type, off, ts) ==
    [key |-> DICT_FB_TYPES(convers_type), id |-> convers_id, offset |-> off,
     limit |-> chunk_size, timestamp |-> ts]

\* messages = json_data['payload']['actions'] + messages
Prepend_mut_append(actions, acc) == acc \o actions

Prepend(actions, acc) == actions \o acc

\* while self._end_flag not in json_data["payload"]
LoopEnds_mut_short(resp) == resp.end \/ Len(resp.actions) < chunk_size

LoopEnds(resp) == resp.end

\* the body of the while loop after the request was sent: the exception it
\* raises, and the locals it leaves
HistoryStep_mut_skip_empty(acc, off, ts, resp) ==
    LET raised == make_request(resp.err) IN
    IF raised # "none" THEN [exc |-> raised, messages |-> acc, offset |-> off,
                             timestamp |-> ts]
    ELSE IF ~resp.has_actions
    THEN [exc |-> "KeyError", messages |-> acc, offset |-> off, timestamp |-> ts]
    ELSE [exc |-> "none", messages |-> Prepend(resp.actions, acc),
          offset |-> off + chunk_size,
          timestamp |-> IF resp.actions = <<>> THEN ts ELSE resp.actions[1]]

HistoryStep_mut_last_record(acc, off, ts, resp) ==
    LET raised == make_request(resp.err) IN
    IF raised # "none" THEN [exc |-> raised, messages |-> acc, offset |-> off,
                             timestamp |-> ts]
    ELSE IF ~resp.has_actions
    THEN [exc |-> "KeyError", messages |-> acc, offset |-> off, timestamp |-> ts]
    ELSE IF resp.actions = <<>>
    THEN [exc |-> "IndexError", messages |-> Prepend(resp.actions, acc),
          offset |-> off, timestamp |-> ts]
    ELSE [exc |-> "none", messages |-> Prepend(resp.actions, acc),
          offset |-> off + chunk_size,
          timestamp |-> resp.actions[Len(resp.actions)]]

HistoryStep(acc, off, ts, resp) ==
    LET raised == make_request(resp.err) IN
    IF raised # "none" THEN [exc |-> raised, messages |-> acc, offset |-> off,
                             timestamp |-> ts]
    ELSE IF ~resp.has_actions
    THEN [exc |-> "KeyError", messages |-> acc, offset |-> off, timestamp |-> ts]
    ELSE IF resp.actions = <<>>
    THEN [exc |-> "IndexError", messages |-> Prepend(resp.actions, acc),
          offset |-> off, timestamp |-> ts]
    ELSE [exc |-> "none", messages |-> Prepend(resp.actions, acc),
          offset |-> off + chunk_size, timestamp |-> resp.actions[1]]

\* if c not in self.convers: raise FBUnknownConvers
IsKnown_mut_any(c, index) == TRUE

IsKnown(c, index) == c \in DOMAIN index

\* the head of `for c in convers_ids` for position i: the end of the list, the
\* unknown identifier, or the locals of a new crawl
BeginConvers(i, ids) ==
    /\ ci' = i
    /\ dump_ids' = ids
    /\ IF i > Len(ids)
       THEN /\ dump_pc' = "done"
            /\ dump_exc' = "none"
            /\ UNCHANGED <<messages, offset, timestamp, responses>>
       ELSE IF ~IsKnown(ids[i], self_convers[1])
       THEN /\ dump_pc' = "failed"
            /\ dump_exc' = "FBUnknownConvers"
            /\ UNCHANGED <<messages, offset, timestamp, responses>>
       ELSE /\ dump_pc' = "crawl"
            /\ dump_exc' = "none"
            /\ messages' = <<>>
            /\ offset' = 0
            /\ timestamp' = 0
            /\ responses' = <<>>

\* FBDumper.__init__ has returned and left `index` in FBDumper.convers
DirectoryCrawled(index) ==
    /\ src_n = <<0, 0>>
    /\ dir_pc = "done"
    /\ convers_status = Len(Statuses)
    /\ list_offset = 0
    /\ convers = index
    /\ self_convers = <<index>>
    /\ participants = [u \in {"u1"} |-> <<"user", "a">>]
    /\ self_participants = <<participants>>
    /\ dir_exc = "none"
    /\ list_requests = <<>>
    /\ json_data = <<>>

InitDump ==
    /\ \E index \in Indexes : DirectoryCrawled(index)
    /\ \E ids \in RequestedLists : DumpNotCalled(ids)
    /\ ParserNotStarted
    /\ NoTransfer
    /\ NothingToClassify
    /\ NoConstruction

\* dump is called: the list to iterate, and the head of its first iteration
DumpCall ==
    /\ dump_pc = "idle"
    /\ BeginConvers(1, ResolveIds(convers_ids, self_convers[1]))
    /\ UNCHANGED <<dirVars, dlVars, xferVars, classVars, ctorVars, convers_ids, last_request, history_requests,
                   requested_ids, dump_files, dump_written>>

\* one iteration of the while loop: the request, its response, and, when the
\* loop ends with it, write_dump_to_file
HistoryRequest ==
    /\ dump_pc = "crawl"
    /\ history_requests < MaxHistoryRequests
    /\ \E resp \in HistoryResponses :
        LET c == dump_ids[ci]
            current_convers == self_convers[1][c]
            r == HistoryStep(messages, offset, timestamp, resp)
        IN
        /\ last_request' = build_data(c, current_convers.type, offset, timestamp)
        /\ history_requests' = history_requests + 1
        /\ requested_ids' = requested_ids \cup {c}
        /\ responses' = Append(responses, resp)
        /\ messages' = r.messages
        /\ offset' = r.offset
        /\ timestamp' = r.timestamp
        /\ dump_exc' = r.exc
        /\ IF r.exc # "none"
           THEN /\ dump_pc' = "failed"
                /\ UNCHANGED <<dump_files, dump_written>>
           ELSE IF LoopEnds(resp)
           THEN /\ dump_pc' = "written"
                /\ dump_files' = Put(dump_files, c, r.messages)
                /\ dump_written' = dump_written \cup {ci}
           ELSE /\ dump_pc' = "crawl"
                /\ UNCHANGED <<dump_files, dump_written>>
    /\ UNCHANGED <<dirVars, dlVars, xferVars, classVars, ctorVars, convers_ids, dump_ids, ci>>

\* the for loop goes on to the next identifier of the list
DumpAdvance ==
    /\ dump_pc = "written"
    /\ BeginConvers(ci + 1, dump_ids)
    /\ UNCHANGED <<dirVars, dlVars, xferVars, classVars, ctorVars, convers_ids, last_request, history_requests,
                   requested_ids, dump_files, dump_written>>

NextDump == DumpCall \/ HistoryRequest \/ DumpAdvance

SpecDump == InitDump /\ [][NextDump]_vars

\* --------------------------------------------------------------------------
\* Properties of the history crawl
\* --------------------------------------------------------------------------

NResp == Len(responses)

LastResponse == responses[NResp]

\* a response that is a chunk of at least one record, with no error report
IsChunk(resp) == resp.err = NoError /\ resp.has_actions /\ resp.actions # <<>>

\* a response with zero message records and no end_of_history flag
EmptyNoSentinel(resp) ==
    resp.err = NoError /\ resp.has_actions /\ resp.actions = <<>> /\ ~resp.end

StrictlyAscending(seq) ==
    \A i, j \in 1..Len(seq) : i < j => seq[i] < seq[j]

StrictlyDescending(seq) ==
    \A i, j \in 1..Len(seq) : i < j => seq[i] > seq[j]

\* every chunk received later holds only records older than every record of
\* every chunk received before it
LaterChunksOlder ==
    \A i, j \in 1..NResp : i < j =>
        \A a \in 1..Len(responses[i].actions), b \in 1..Len(responses[j].actions) :
            responses[j].actions[b] < responses[i].actions[a]

\* the crawl of the conversation at position ci is running or has written
\* its dump, and every response to it was a chunk
Assembling ==
    /\ dump_pc \in {"crawl", "written"}
    /\ \A i \in 1..NResp : IsChunk(responses[i])

\* C1: the crawl of a conversation stops at the first response that carries the
\* end_of_history flag (no response but the last one carries it, so no request
\* follows it), it is written only after a response that carries the flag, and
\* as long as every response is a chunk without the flag the crawl is still
\* requesting.
C1_StopsAtSentinel ==
    /\ \A i \in 1..NResp : responses[i].end => i = NResp
    /\ dump_pc = "crawl" => \A i \in 1..NResp : ~responses[i].end
    /\ dump_pc = "written" =>
        /\ NResp >= 1
        /\ LastResponse.end
        /\ ci \in dump_written
    /\ (NResp >= 1 /\ \A i \in 1..NResp : IsChunk(responses[i]) /\ ~responses[i].end)
        => dump_pc = "crawl"
    /\ \A p \in dump_written : p < ci \/ (p = ci /\ dump_pc = "written")

\* the flag came with the third response and the crawl stopped there
C1_Witness ==
    /\ dump_pc = "written"
    /\ NResp = 3
    /\ ~responses[1].end /\ ~responses[2].end /\ responses[3].end
    /\ offset = 3 * chunk_size

\* C2 as stated: when timestamps descend inside each chunk and each later chunk
\* is older than every earlier one, the list written to the dump is strictly
\* ascending.
C2_DescendingChunksAscend ==
    (/\ dump_pc = "written"
     /\ \A i \in 1..NResp : IsChunk(responses[i])
     /\ \A i \in 1..NResp : StrictlyDescending(responses[i].actions)
     /\ LaterChunksOlder)
    => StrictlyAscending(dump_files[dump_ids[ci]])

\* C2 amended: when timestamps ascend inside each chunk and each later chunk is
\* older than every earlier one, the accumulator is strictly ascending after
\* every chunk, and so is the list written to the dump, which is the
\* accumulator.
C2_AscendingChunksAscend ==
    /\ (/\ Assembling
        /\ \A i \in 1..NResp : StrictlyAscending(responses[i].actions)
        /\ LaterChunksOlder)
       => StrictlyAscending(messages)
    /\ dump_pc = "written" => dump_files[dump_ids[ci]] = messages

\* two chunks, the second one older and of two records, gave an ascending dump
C2_Witness ==
    /\ dump_pc = "written"
    /\ NResp = 2
    /\ responses[1].actions = <<3>>
    /\ responses[2].actions = <<1, 2>>
    /\ dump_files[dump_ids[ci]] = <<1, 2, 3>>

\* C5: no history request is ever issued for an identifier that the index does
\* not hold, and dump raises FBUnknownConvers exactly when the loop reaches one.
C5_UnknownConversRejected ==
    /\ \A id \in requested_ids : id \in DOMAIN self_convers[1]
    /\ (dump_pc # "idle" /\ ci \in 1..Len(dump_ids)
            /\ dump_ids[ci] \notin DOMAIN self_convers[1])
        => (dump_pc = "failed" /\ dump_exc = "FBUnknownConvers")
    /\ dump_exc = "FBUnknownConvers" =>
        /\ dump_pc = "failed"
        /\ dump_ids[ci] \notin DOMAIN self_convers[1]
        /\ dump_ids[ci] \notin requested_ids
        /\ ci \notin dump_written

\* the first conversation was dumped, the second identifier is unknown
C5_Witness ==
    /\ dump_exc = "FBUnknownConvers"
    /\ ci = 2
    /\ dump_written = {1}
    /\ dump_ids[2] = ConversX
    /\ history_requests >= 1

\* C6 as stated: a response with an error indicator makes make_request raise
\* FBResponseError; it is the last request of the run and the crawl it belongs
\* to writes no dump.
C6_ErrorRaisesFBResponseError ==
    \A i \in 1..NResp : responses[i].err.error =>
        /\ dump_exc = "FBResponseError"
        /\ i = NResp
        /\ dump_pc = "failed"
        /\ ci \notin dump_written

\* what holds of C6 whatever the exception is: the response with the error
\* indicator is the last one of the run, dump has failed and the crawl wrote
\* no dump
ErrorResponseAborts ==
    \A i \in 1..NResp : responses[i].err.error =>
        /\ dump_exc \in {"FBResponseError", "KeyError"}
        /\ (dump_exc = "FBResponseError") = responses[i].err.errorSummary
        /\ i = NResp
        /\ dump_pc = "failed"
        /\ ci \notin dump_written

\* C7: a response with zero records and no end_of_history flag ends the crawl
\* in an error (IndexError): it is the last response of the run, dump has
\* failed, and the crawl wrote no dump.
C7_EmptyPageIsError ==
    \A i \in 1..NResp : EmptyNoSentinel(responses[i]) =>
        /\ i = NResp
        /\ dump_pc = "failed"
        /\ dump_exc = "IndexError"
        /\ ci \notin dump_written

\* the empty response came after a chunk, which is in no dump
C7_Witness ==
    /\ dump_pc = "failed"
    /\ NResp = 2
    /\ IsChunk(responses[1])
    /\ EmptyNoSentinel(responses[2])
    /\ messages # <<>>
    /\ dump_files = EmptyDict

\* --------------------------------------------------------------------------
\* The download scheduler: ThreadPoolExecutor, dl_file, wait_threads
\* --------------------------------------------------------------------------

Terminal == {"saved", "failed"}

NFutures == Len(futures)

Running == { i \in 1..NFutures : futures[i] = "running" }

CollectedSet == { collected[k] : k \in 1..Len(collected) }

\* except Exception as e: if to_stdout: print(...) else: raise e
OnException_mut_raise(stdout) == "raise"

OnException_mut_report(stdout) == "report"

OnException(stdout) == IF stdout THEN "report" ELSE "raise"

\* finally: loading_thread.cnt -= 1
Finally_mut_skip(cnt) == cnt

Finally(cnt) == cnt - 1

\* ThreadPoolExecutor(max_workers=threads): a queued work item is taken, in
\* submission order, when fewer than max_workers items are running
CanStart_mut_unbounded(i) ==
    /\ futures[i] = "submitted"
    /\ \A j \in 1..(i - 1) : futures[j] # "submitted"

CanStart(i) ==
    /\ futures[i] = "submitted"
    /\ \A j \in 1..(i - 1) : futures[j] # "submitted"
    /\ Cardinality(Running) < threads

\* dl_file returns (the file is written and closed) or raises (the request,
\* the open or a write fails)
dl_file(i) == IF i \in will_fail THEN "failed" ELSE "saved"

\* as_completed(self.futures) has yielded every future
AllCollected_mut_any == TRUE

AllCollected == CollectedSet = 1..NFutures

\* json.load(f) in init_parser_for_next
json_load_mut_lenient(i) == "none"

json_load(i) == IF i \in malformed THEN "JSONDecodeError" ELSE "none"

\* write_reports_to_file: the six reports of the file at position i
write_reports_to_file_mut_skip(written, i) == written

write_reports_to_file(written, i) == Append(written, i)

\* for file in self.infile_json
infile_json == <<"complete_1.json", "complete_2.json">>

InitDL ==
    /\ DirectoryCrawled([id \in {ConversA} |-> SummaryOf(id)])
    /\ DumpNotCalled(<<>>)
    /\ to_stdout \in BOOLEAN
    /\ will_fail \in SUBSET (1..MaxDownloads)
    /\ malformed \in SUBSET (1..Len(infile_json))
    /\ reports = <<>>
    /\ parse_pc = "parse"
    /\ futures = <<>>
    /\ collected = <<>>
    /\ raised_from = 0
    /\ loading_cnt = 0
    /\ run_flag = FALSE
    /\ loading_state = "none"
    /\ file_idx = 0
    /\ earlier_futures = <<>>
    /\ NoTransfer
    /\ NothingToClassify
    /\ NoConstruction

\* check_and_get_*: self.futures[self.executor.submit(self.dl_file, url, path)]
Submit ==
    /\ parse_pc = "process_msgs"
    /\ Len(earlier_futures) + NFutures < MaxDownloads
    /\ futures' = Append(futures, "submitted")
    /\ UNCHANGED <<dirVars, dumpVars, xferVars, classVars, ctorVars, file_idx, earlier_futures,
                   malformed, reports,
                   to_stdout, will_fail, parse_pc, collected,
                   raised_from, loading_cnt, run_flag, loading_state>>

\* process_msgs has returned: parse calls write_reports_to_file and then
\* wait_threads, which creates and starts the loading thread and enters the
\* as_completed loop
WaitThreadsCall ==
    /\ parse_pc = "process_msgs"
    /\ msg_idx > Len(json_msgs)
    /\ reports' = write_reports_to_file(reports, file_idx)
    /\ IF mode = "dl"
       THEN /\ parse_pc' = "as_completed"
            /\ loading_cnt' = NFutures
            /\ run_flag' = TRUE
            /\ loading_state' = "running"
       ELSE /\ parse_pc' = "returned"
            /\ UNCHANGED <<loading_cnt, run_flag, loading_state>>
    /\ UNCHANGED <<dirVars, dumpVars, xferVars, classVars, ctorVars, file_idx, earlier_futures,
                   malformed,
                   to_stdout, will_fail, futures, collected,
                   raised_from>>

\* a worker of the pool takes the next queued work item
WorkerStart(i) ==
    /\ CanStart(i)
    /\ futures' = [futures EXCEPT ![i] = "running"]
    /\ UNCHANGED <<dirVars, dumpVars, xferVars, classVars, ctorVars, file_idx, earlier_futures,
                   malformed, reports,
                   to_stdout, will_fail, parse_pc, collected,
                   raised_from, loading_cnt, run_flag, loading_state>>

\* dl_file ends: the future holds its result or its exception
WorkerFinish(i) ==
    /\ futures[i] = "running"
    /\ futures' = [futures EXCEPT ![i] = dl_file(i)]
    /\ UNCHANGED <<dirVars, dumpVars, xferVars, classVars, ctorVars, file_idx, earlier_futures,
                   malformed, reports,
                   to_stdout, will_fail, parse_pc, collected,
                   raised_from, loading_cnt, run_flag, loading_state>>

\* one iteration of `for future in futures.as_completed(self.futures)`:
\* future.result(), the except clause, and the finally clause
Collect(i) ==
    /\ parse_pc = "as_completed"
    /\ i \notin CollectedSet
    /\ futures[i] \in Terminal
    /\ collected' = Append(collected, i)
    /\ loading_cnt' = Finally(loading_cnt)
    /\ IF futures[i] = "failed" /\ OnException(to_stdout) = "raise"
       THEN parse_pc' = "raised" /\ raised_from' = i
       ELSE UNCHANGED <<parse_pc, raised_from>>
    /\ UNCHANGED <<dirVars, dumpVars, xferVars, classVars, ctorVars, file_idx, earlier_futures,
                   malformed, reports,
                   to_stdout, will_fail, futures, run_flag,
                   loading_state>>

\* the loop is over: loading_thread.run_flag = False
LoopExit ==
    /\ parse_pc = "as_completed"
    /\ AllCollected
    /\ run_flag' = FALSE
    /\ parse_pc' = "join"
    /\ UNCHANGED <<dirVars, dumpVars, xferVars, classVars, ctorVars, file_idx, earlier_futures,
                   malformed, reports,
                   to_stdout, will_fail, futures, collected,
                   raised_from, loading_cnt, loading_state>>

\* PrintLoading.run leaves `while self.run_flag`
LoadingExit ==
    /\ loading_state = "running"
    /\ ~run_flag
    /\ loading_state' = "terminated"
    /\ UNCHANGED <<dirVars, dumpVars, xferVars, classVars, ctorVars, file_idx, earlier_futures,
                   malformed, reports,
                   to_stdout, will_fail, parse_pc, futures,
                   collected, raised_from, loading_cnt, run_flag>>

\* loading_thread.join() returns, and wait_threads with it
JoinReturns ==
    /\ parse_pc = "join"
    /\ loading_state = "terminated"
    /\ parse_pc' = "returned"
    /\ UNCHANGED <<dirVars, dumpVars, xferVars, classVars, ctorVars, file_idx, earlier_futures,
                   malformed, reports,
                   to_stdout, will_fail, futures, collected,
                   raised_from, loading_cnt, run_flag, loading_state>>

\* the attributes init_parser_for_next assigns after the file is loaded
ResetAttrs_mut_keep ==
    [msgs |-> msgs, pics |-> pics, gifs |-> gifs, videos |-> videos,
     files |-> files, links |-> links, cnt_msgs |-> cnt_msgs,
     cnt_pics |-> cnt_pics, cnt_gifs |-> cnt_gifs, cnt_videos |-> cnt_videos,
     cnt_files |-> cnt_files, cnt_links |-> cnt_links, quit |-> quit,
     futures |-> <<>>]

ResetAttrs ==
    [msgs |-> <<>>, pics |-> <<>>, gifs |-> <<>>, videos |-> <<>>,
     files |-> <<>>, links |-> <<>>, cnt_msgs |-> 0, cnt_pics |-> 0,
     cnt_gifs |-> 0, cnt_videos |-> 0, cnt_files |-> 0, cnt_links |-> 0,
     quit |-> FALSE, futures |-> <<>>]

\* parse enters its loop, or wait_threads has returned: the next iteration of
\* `for file in self.infile_json` calls init_parser_for_next. json.load raises
\* on a file that is not JSON, before any attribute is reset; otherwise
\* self.futures is replaced by an empty dict, and the executor keeps the work
\* items it was given
InitParserForNext ==
    /\ parse_pc \in {"parse", "returned"}
    /\ file_idx < Len(infile_json)
    /\ file_idx' = file_idx + 1
    /\ IF json_load(file_idx + 1) # "none"
       THEN /\ parse_pc' = "aborted"
            /\ UNCHANGED <<earlier_futures, futures, collected, loading_cnt,
                           loading_state, json_msgs, msg_idx, streamVars,
                           dl_requests, quit>>
       ELSE /\ json_msgs' = infiles[file_idx + 1]
            /\ msg_idx' = 1
            /\ msgs' = ResetAttrs.msgs
            /\ pics' = ResetAttrs.pics
            /\ gifs' = ResetAttrs.gifs
            /\ videos' = ResetAttrs.videos
            /\ files' = ResetAttrs.files
            /\ links' = ResetAttrs.links
            /\ cnt_msgs' = ResetAttrs.cnt_msgs
            /\ cnt_pics' = ResetAttrs.cnt_pics
            /\ cnt_gifs' = ResetAttrs.cnt_gifs
            /\ cnt_videos' = ResetAttrs.cnt_videos
            /\ cnt_files' = ResetAttrs.cnt_files
            /\ cnt_links' = ResetAttrs.cnt_links
            /\ quit' = ResetAttrs.quit
            /\ earlier_futures' = earlier_futures \o futures
            /\ futures' = ResetAttrs.futures
            /\ dl_requests' = <<>>
            /\ collected' = <<>>
            /\ loading_cnt' = 0
            /\ loading_state' = "none"
            /\ parse_pc' = "process_msgs"
    /\ UNCHANGED <<dirVars, dumpVars, ctorVars, to_stdout, will_fail,
                   raised_from, run_flag, malformed, reports, mode, data,
                   infiles, content, dl_pc, fetched, file, at_quit>>

MainThread == Submit \/ WaitThreadsCall \/ (\E i \in 1..NFutures : Collect(i))
                \/ LoopExit \/ JoinReturns \/ InitParserForNext

Workers == \E i \in 1..NFutures : WorkerStart(i) \/ WorkerFinish(i)

NextDL == MainThread \/ Workers \/ LoadingExit

\* Threads are scheduled fairly, and a transfer that was started ends: the
\* remote side answers or the transport raises.
SpecDL == InitDL /\ [][NextDL]_vars
            /\ WF_vars(MainThread) /\ WF_vars(Workers) /\ WF_vars(LoadingExit)

\* --------------------------------------------------------------------------
\* Properties of the download scheduler
\* --------------------------------------------------------------------------

AllTerminal == \A i \in 1..NFutures : futures[i] \in Terminal

NoDuplicateOutcome ==
    \A k, l \in 1..Len(collected) : collected[k] = collected[l] => k = l

Saved == { i \in 1..NFutures : futures[i] = "saved" }

Failed == { i \in 1..NFutures : futures[i] = "failed" }

BestEffort ==
    /\ parse_pc # "raised"
    /\ NoDuplicateOutcome
    /\ \A k \in 1..Len(collected) : futures[collected[k]] \in Terminal
    /\ \A i \in 1..NFutures :
          futures[i] \in Terminal => futures[i] = dl_file(i)
    /\ parse_pc \in {"join", "returned"} =>
          /\ AllCollected
          /\ Failed = will_fail \cap (1..NFutures)
          /\ Saved = (1..NFutures) \ will_fail

\* C9: when to_stdout is True, wait_threads never raises; every submitted
\* download is collected exactly once as saved or failed, a download fails
\* only if its own transfer fails (whatever happened to its siblings), and
\* wait_threads, once called, returns with all outcomes collected: the failed
\* ones are exactly the failing requests and all the others are saved.
C9_FailuresAbsorbed ==
    /\ [](to_stdout => BestEffort)
    /\ (to_stdout /\ parse_pc = "as_completed") ~> (parse_pc = "returned")

C9_Witness ==
    /\ to_stdout
    /\ parse_pc = "returned"
    /\ NFutures = MaxDownloads
    /\ will_fail = {2, MaxDownloads}
    /\ Cardinality(Saved) = MaxDownloads - 2
    /\ Cardinality(Failed) = 2
    /\ collected[1] = 2

FailFast ==
    /\ NoDuplicateOutcome
    /\ \A k \in 1..Len(collected) :
          futures[collected[k]] = "failed" =>
             /\ k = Len(collected)
             /\ parse_pc = "raised"
             /\ raised_from = collected[k]
    /\ parse_pc = "raised" =>
          /\ collected # <<>>
          /\ raised_from = collected[Len(collected)]
          /\ futures[raised_from] = "failed"

\* C10: when to_stdout is False, the first failed outcome collected by
\* wait_threads is raised to the caller and is the last outcome collected;
\* wait_threads, once called, always exits (it returns or raises), and after
\* it has raised every submitted download still ends saved or failed.
C10_FailFastNoDeadlock ==
    /\ [](~to_stdout => FailFast)
    /\ [][~to_stdout /\ parse_pc = "raised" =>
             collected' = collected /\ parse_pc' = "raised"]_vars
    /\ (~to_stdout /\ parse_pc \in {"as_completed", "raised"})
          ~> (parse_pc = "returned" \/ (parse_pc = "raised" /\ AllTerminal))

C10_Witness ==
    /\ ~to_stdout
    /\ parse_pc = "raised"
    /\ Cardinality(will_fail \cap (1..NFutures)) = 2
    /\ Running # {}
    /\ \E i \in 1..NFutures : futures[i] = "submitted"

\* C11: in download mode the number of downloads running at any moment is at
\* most the worker count `threads`, however many downloads were submitted.
C11_RunningAtMostThreads == Cardinality(Running) <= threads

C11_Witness ==
    /\ Cardinality(Running) = threads
    /\ \E i \in 1..NFutures : futures[i] = "submitted"
    /\ NFutures = MaxDownloads

PendingCount ==
    parse_pc # "process_msgs" =>
        /\ loading_cnt = NFutures - Len(collected)
        /\ loading_cnt >= 0
        /\ (collected = <<>> => loading_cnt = NFutures)
        /\ (to_stdout /\ parse_pc = "returned" => loading_cnt = 0)

\* C12: the counter of the loading thread starts at the number of submitted
\* downloads and goes down by exactly one with every collected outcome, saved
\* or failed: it is never negative, always equals submitted minus collected,
\* and is 0 when wait_threads returns with to_stdout True.
C12_PendingCount ==
    /\ []PendingCount
    /\ [][collected' # collected /\ Len(collected') = Len(collected) + 1 =>
             loading_cnt' = loading_cnt - 1]_vars
    /\ [][loading_cnt' # loading_cnt /\ parse_pc # "process_msgs" =>
             Len(collected') = Len(collected) + 1]_vars

C12_Witness ==
    /\ to_stdout
    /\ parse_pc = "returned"
    /\ loading_cnt = 0
    /\ NFutures = MaxDownloads
    /\ Failed # {}
    /\ Saved # {}

EarlierResolved ==
    \A k \in 1..Len(earlier_futures) : earlier_futures[k] \in Terminal

\* C13: when parse goes through several files with to_stdout True, the
\* downloads of one file never overlap those of the next: parse moves on to
\* the next file only when every download of the current file was collected
\* and ended saved or failed, so while the messages of a file are classified
\* and its downloads submitted, every download of the earlier files is over.
C13_NoBatchOverlap ==
    /\ [](to_stdout => EarlierResolved)
    /\ [][to_stdout /\ file_idx' # file_idx /\ file_idx >= 1 =>
             /\ parse_pc = "returned"
             /\ AllCollected
             /\ AllTerminal
             /\ (parse_pc' = "process_msgs" => futures' = <<>>)]_vars

C13_Witness ==
    /\ to_stdout
    /\ file_idx = 2
    /\ Len(earlier_futures) = 2
    /\ 1 \in will_fail
    /\ NFutures = 2
    /\ Running # {}

\* --------------------------------------------------------------------------
\* FBParser.dl_file chunk by chunk, and the flag FBParser.quit
\* --------------------------------------------------------------------------

\* the calls of dl_file in flight, one per worker thread
Transfers == {1, 2}

\* what `for chunk in r.iter_content(chunk_size=1024)` gives next: a chunk
\* with bytes, an empty chunk, or an exception of the transport
ChunkKinds == {"data", "empty"}

ChunkSeqs(n) == UNION { [1..k -> ChunkKinds] : k \in 0..n }

Contents ==
    ChunkSeqs(MaxChunks)
        \cup { Append(c, "error") : c \in ChunkSeqs(MaxChunks - 1) }

Ended == {"returned", "stopped", "raised"}

\* if self.quit: break
BreakOnQuit_mut_ignore(q) == FALSE

BreakOnQuit(q) == q

\* future.result() in wait_threads: a call of dl_file that returned is a
\* saved file, a call that raised is a failed one
Outcome(pc) ==
    CASE pc \in {"returned", "stopped"} -> "saved"
      [] pc = "raised" -> "failed"
      [] OTHER -> "pending"

InitXfer ==
    /\ DirectoryCrawled([id \in {ConversA} |-> SummaryOf(id)])
    /\ DumpNotCalled(<<>>)
    /\ ParserNotStarted
    /\ NothingToClassify
    /\ quit = FALSE
    /\ content \in [Transfers -> Contents]
    /\ dl_pc = [i \in Transfers |-> "submitted"]
    /\ fetched = [i \in Transfers |-> 0]
    /\ file = [i \in Transfers |-> <<>>]
    /\ at_quit = <<>>
    /\ NoConstruction

\* r = requests.get(url, stream=True); with open(filelocation, 'wb') as f
OpenFile(i) ==
    /\ dl_pc[i] = "submitted"
    /\ dl_pc' = [dl_pc EXCEPT ![i] = "iter"]
    /\ UNCHANGED <<dirVars, dumpVars, dlVars, classVars, ctorVars, quit, content, fetched, file,
                   at_quit>>

\* the for statement asks iter_content for the next chunk
NextChunk(i) ==
    /\ dl_pc[i] = "iter"
    /\ IF fetched[i] = Len(content[i])
       THEN /\ dl_pc' = [dl_pc EXCEPT ![i] = "returned"]
            /\ UNCHANGED fetched
       ELSE IF content[i][fetched[i] + 1] = "error"
       THEN /\ dl_pc' = [dl_pc EXCEPT ![i] = "raised"]
            /\ UNCHANGED fetched
       ELSE /\ dl_pc' = [dl_pc EXCEPT ![i] = "check"]
            /\ fetched' = [fetched EXCEPT ![i] = fetched[i] + 1]
    /\ UNCHANGED <<dirVars, dumpVars, dlVars, classVars, ctorVars, quit, content, file, at_quit>>

\* if self.quit: break
CheckQuit(i) ==
    /\ dl_pc[i] = "check"
    /\ dl_pc' = [dl_pc EXCEPT ![i] =
                    IF BreakOnQuit(quit) THEN "stopped" ELSE "write"]
    /\ UNCHANGED <<dirVars, dumpVars, dlVars, classVars, ctorVars, quit, content, fetched, file,
                   at_quit>>

\* if chunk: f.write(chunk)
WriteChunk(i) ==
    /\ dl_pc[i] = "write"
    /\ file' = [file EXCEPT ![i] =
                   IF content[i][fetched[i]] = "data"
                   THEN Append(file[i], fetched[i]) ELSE file[i]]
    /\ dl_pc' = [dl_pc EXCEPT ![i] = "iter"]
    /\ UNCHANGED <<dirVars, dumpVars, dlVars, classVars, ctorVars, quit, content, fetched, at_quit>>

\* the owner of the parser sets parser.quit = True
SetQuit ==
    /\ ~quit
    /\ quit' = TRUE
    /\ at_quit' = <<dl_pc, file>>
    /\ UNCHANGED <<dirVars, dumpVars, dlVars, classVars, ctorVars, content, dl_pc, fetched, file>>

Transfer == \E i \in Transfers :
                OpenFile(i) \/ NextChunk(i) \/ CheckQuit(i) \/ WriteChunk(i)

NextXfer == Transfer \/ SetQuit

\* Worker threads are scheduled fairly and iter_content always answers.
SpecXfer == InitXfer /\ [][NextXfer]_vars /\ WF_vars(Transfer)

\* --------------------------------------------------------------------------
\* Properties of the transfers
\* --------------------------------------------------------------------------

IsPrefix(a, b) == Len(a) <= Len(b) /\ SubSeq(b, 1, Len(a)) = a

\* after quit is set a call writes at most the chunk it had already checked
\* the flag for
NoFurtherChunk ==
    quit => \A i \in Transfers :
        /\ IsPrefix(at_quit[2][i], file[i])
        /\ Len(file[i]) <= Len(at_quit[2][i])
                             + (IF at_quit[1][i] = "write" THEN 1 ELSE 0)

\* C14: once quit is set, every call of dl_file in flight sees it at its next
\* check, which comes before the next chunk it takes is written: it leaves
\* the loop there and writes nothing more (only a chunk that had passed the
\* check before the flag was set is still written); the call ends and is
\* never started again, and what it wrote stays in the file.
C14_QuitStopsTransfers ==
    /\ []NoFurtherChunk
    /\ [][\A i \in Transfers :
             quit /\ dl_pc[i] = "check" /\ dl_pc'[i] # "check" =>
                dl_pc'[i] = "stopped" /\ file'[i] = file[i]]_vars
    /\ [][\A i \in Transfers :
             /\ IsPrefix(file[i], file'[i])
             /\ dl_pc[i] \in Ended =>
                   dl_pc'[i] = dl_pc[i] /\ file'[i] = file[i]]_vars
    /\ quit ~> (\A i \in Transfers : dl_pc[i] \in Ended)

C14_Witness ==
    /\ quit
    /\ \E i \in Transfers :
          /\ dl_pc[i] = "stopped"
          /\ content[i] = <<"data", "data">>
          /\ file[i] = <<1>>
    /\ \E j \in Transfers :
          /\ at_quit[1][j] = "write"
          /\ Len(file[j]) = Len(at_quit[2][j]) + 1

\* C15: a call of dl_file stopped early by quit does not resolve with the
\* outcome of a call that wrote every chunk.
C15_StoppedIsNotSaved ==
    \A i, j \in Transfers :
        dl_pc[i] = "stopped" /\ dl_pc[j] = "returned" =>
            Outcome(dl_pc[i]) # Outcome(dl_pc[j])

\* --------------------------------------------------------------------------
\* The classifier: FBParser.process_msgs and the check_and_get_* functions
\* --------------------------------------------------------------------------

None == "None"

\* the values of FBDataTypes, in the order parse puts the functions in its list
FBDataTypes == <<"messages", "pictures", "gifs", "videos", "files", "links">>

_action_type_user_msg == "ma-type:user-generated-message"

\* self.output_convers, the folder of the conversation being parsed
output_convers == "output/conversation/"

Attachment(type, name, preview_url, url, uri) ==
    [attach_type |-> type, name |-> name, preview_url |-> preview_url,
     url |-> url, share |-> [uri |-> uri]]

\* a URI is a sequence of pieces; the redirect wrapper of Facebook is
\* https://l.facebook.com/l.php?u=<quoted target>&h=<hash>
WrapperHead == "https://l.facebook.com/l.php?u="

WrappedUri == <<WrapperHead, "https%3A%2F%2Fexample.com%2Fx", "&h=", "AT0">>

RawUri == <<"https://example.com/y">>

\* a wrapper head that no "&h=" follows
HeadOnlyUri == <<WrapperHead, "https%3A%2F%2Fexample.com%2Fx">>

Photo == Attachment("photo", "p.jpg", "https://cdn/preview/p.jpg",
                    "https://cdn/p.jpg", None)

PhotoNoUrl == Attachment("photo", "q.jpg", None, None, None)

Gif == Attachment("animated_image", "g.gif", "https://cdn/preview/g.gif",
                  "https://cdn/g.gif", None)

Video == Attachment("video", "v.mp4", "https://cdn/preview/v.jpg",
                    "https://cdn/v.mp4", None)

VideoNoUrl == Attachment("video", "w.mp4", "https://cdn/preview/w.jpg", None,
                         None)

File == Attachment("file", "f.pdf", None, "https://cdn/f.pdf", None)

FileNoUrl == Attachment("file", "e.pdf", None, None, None)

ShareWrapped == Attachment("share", "s1", None, None, WrappedUri)

ShareRaw == Attachment("share", "s2", None, None, RawUri)

ShareNoUri == Attachment("share", "s3", None, None, None)

ShareHeadOnly == Attachment("share", "s4", None, None, HeadOnlyUri)

ErrorAttachment == Attachment("error", None, None, None, None)

AttachmentShapes == {Photo, PhotoNoUrl, Gif, Video, VideoNoUrl, File, FileNoUrl,
                     ShareWrapped, ShareRaw, ShareNoUri, ShareHeadOnly,
                     ErrorAttachment}

\* msg["attachments"]
AttachmentLists ==
    { <<>>, <<Photo>>, <<PhotoNoUrl>>, <<Gif>>, <<Video>>, <<VideoNoUrl>>,
      <<File>>, <<ShareNoUri>>, <<ShareRaw>>, <<ShareHeadOnly>>,
      <<Photo, FileNoUrl>>,
      <<File, Photo>>, <<Gif, Video>>, <<ErrorAttachment, Photo>>,
      <<ShareWrapped, ShareRaw>> }

Range(u) == [entity |-> [url |-> u]]

\* msg["ranges"]: <<>> when the message has no such key, <<list>> when it has
NoRanges == <<>>

RangeLists == { <<<<>>>>,
                <<<<Range("https://example.org/r2"),
                    Range("https://example.org/r1")>>>> }

Message(type, author, atts, ranges) ==
    [action_type |-> type, author |-> <<"fbid:", author>>, body |-> "hi",
     timestamp |-> 0, attachments |-> atts, ranges |-> ranges]

Messages ==
    { Message(_action_type_user_msg, "u1", a, NoRanges) : a \in AttachmentLists }
    \cup { Message(_action_type_user_msg, "u9", a, r) :
             a \in { <<>>, <<ShareWrapped, ShareRaw>> }, r \in RangeLists }
    \cup { Message("ma-type:log-message", "u1", <<Photo, File>>, NoRanges),
           Message("ma-type:log-message", "u1", <<ShareRaw>>,
                   <<<<Range("https://example.org/r1")>>>>) }

\* the k-th message of a file is sent at second k
Inputs ==
    UNION { { [k \in 1..n |-> [f[k] EXCEPT !.timestamp = k * 1000]] :
                f \in [1..n -> Messages] } : n \in 1..MaxMsgs }

\* self.data as given to the constructor
DataOptions == { <<"all">>, <<"files", "pictures">>, <<"links", "messages">> }

Functions_mut_request_order(d) ==
    LET requested == { d[k] : k \in 1..Len(d) }
    IN  IF "all" \in requested THEN FBDataTypes ELSE d

\* the list `functions` built by parse
Functions(d) ==
    LET requested == { d[k] : k \in 1..Len(d) }
    IN  IF "all" \in requested THEN FBDataTypes
        ELSE SelectSeq(FBDataTypes, LAMBDA t : t \in requested)

common_checks_mut_all(msg) == TRUE

common_checks(msg) == msg.action_type = _action_type_user_msg

\* ''.join([str(a["name"]) + " " for a in ... if a["attach_type"] != "error"])
AttachmentNames(atts) ==
    LET kept == SelectSeq(atts, LAMBDA a : a.attach_type # "error")
    IN  [k \in 1..Len(kept) |-> kept[k].name]

\* datetime.fromtimestamp(msg["timestamp"] / 1000): milliseconds to seconds
Date(ts) == ts \div 1000

message_fmt(body, attachments, username, fbid, date) ==
    [body |-> body, attachments |-> attachments, username |-> username,
     fbid |-> fbid, date |-> date]

\* self.cnt_<category> += 1
Incremented_mut_twice(cnt) == cnt + 2

Incremented(cnt) == cnt + 1

check_and_get_msg_mut_bare(st, msg) ==
    IF msg.attachments # <<>> THEN st
    ELSE [st EXCEPT !.msgs = Append(@, message_fmt(msg.body, <<>>, <<>>,
                                                    msg.author[2],
                                                    Date(msg.timestamp))),
                    !.cnt_msgs = @ + 1]

check_and_get_msg(st, msg) ==
    LET attachments == AttachmentNames(msg.attachments)
        fbid == msg.author[2]
        username == IF fbid \in DOMAIN self_participants[1]
                    THEN self_participants[1][fbid] ELSE <<>>
    IN  [st EXCEPT !.msgs = Append(@, message_fmt(msg.body, attachments,
                                                   username, fbid,
                                                   Date(msg.timestamp))),
                   !.cnt_msgs = Incremented(@)]

\* attachment["attach_type"] == <type> and attachment[<key>] is not None
Eligible_mut_no_url_test(a, type, key) == a.attach_type = type

Eligible_mut_no_type_test(a, type, key) == a[key] # None

Eligible(a, type, key) == a.attach_type = type /\ a[key] # None

\* if self.mode == FBParserMode.DL
Downloads_mut_always(m) == TRUE

Downloads(m) == m = "dl"

\* dl_path = self.output_convers + <category> + os.sep + attachment["name"]
dl_path(category, name) == <<output_convers, category, name>>

\* the body shared by check_and_get_pics, _gifs, _videos and _files: the loop
\* over msg["attachments"] from position k on
RECURSIVE MediaLoop(_, _, _, _, _, _, _, _)
MediaLoop(st, atts, k, type, key, stream, cnt, category) ==
    IF k > Len(atts) THEN st
    ELSE LET a == atts[k]
             st1 == IF mode = "report" \/ mode = "dl"
                    THEN [st EXCEPT ![stream] = Append(@, a[key])] ELSE st
             st2 == IF Downloads(mode)
                    THEN [st1 EXCEPT !.requests =
                             Append(@, <<a[key], dl_path(category, a.name)>>)]
                    ELSE st1
             st3 == [st2 EXCEPT ![cnt] = Incremented(@)]
         IN  MediaLoop(IF Eligible(a, type, key) THEN st3 ELSE st,
                       atts, k + 1, type, key, stream, cnt, category)

check_and_get_pics(st, msg) ==
    MediaLoop(st, msg.attachments, 1, "photo", "preview_url", "pics",
              "cnt_pics", "pictures")

check_and_get_gifs(st, msg) ==
    MediaLoop(st, msg.attachments, 1, "animated_image", "preview_url", "gifs",
              "cnt_gifs", "gifs")

check_and_get_videos(st, msg) ==
    MediaLoop(st, msg.attachments, 1, "video", "url", "videos", "cnt_videos",
              "videos")

check_and_get_files(st, msg) ==
    MediaLoop(st, msg.attachments, 1, "file", "url", "files", "cnt_files",
              "files")

\* re.search("https:\/\/l.facebook.com\/l.php.u=(.*?)&h=", uri): the first
\* wrapper head that has a "&h=" after it, and the nearest such "&h="
Heads(uri) ==
    { i \in 1..Len(uri) :
        uri[i] = WrapperHead /\ \E j \in (i + 1)..Len(uri) : uri[j] = "&h=" }

Lowest(S) == CHOOSE x \in S : \A y \in S : x <= y

\* parse.unquote, piece by piece
unquote(piece) ==
    IF piece = "https%3A%2F%2Fexample.com%2Fx" THEN "https://example.com/x"
    ELSE piece

\* the line a share attachment adds to the links stream
ShareLine_mut_raw(uri) == uri

ShareLine(uri) ==
    IF Heads(uri) = {} THEN uri
    ELSE LET i == Lowest(Heads(uri))
             j == Lowest({ n \in (i + 1)..Len(uri) : uri[n] = "&h=" })
         IN  [k \in 1..(j - i - 1) |-> unquote(uri[i + k])]

RECURSIVE ShareLoop(_, _, _)
ShareLoop(st, atts, k) ==
    IF k > Len(atts) THEN st
    ELSE LET a == atts[k]
         IN  ShareLoop(IF a.attach_type = "share" /\ a.share.uri # None
                       THEN [st EXCEPT !.links = Append(@, ShareLine(a.share.uri)),
                                       !.cnt_links = Incremented(@)]
                       ELSE st,
                       atts, k + 1)

RECURSIVE RangeLoop(_, _, _)
RangeLoop(st, ranges, k) ==
    IF k > Len(ranges) THEN st
    ELSE RangeLoop([st EXCEPT !.links = Append(@, <<ranges[k].entity.url>>),
                              !.cnt_links = Incremented(@)],
                   ranges, k + 1)

check_and_get_links_mut_ranges_first(st, msg) ==
    ShareLoop(IF msg.ranges # NoRanges THEN RangeLoop(st, msg.ranges[1], 1)
              ELSE st,
              msg.attachments, 1)

check_and_get_links(st, msg) ==
    LET shares == ShareLoop(st, msg.attachments, 1)
    IN  IF msg.ranges # NoRanges THEN RangeLoop(shares, msg.ranges[1], 1)
        ELSE shares

\* for function in functions: function(msg)
RECURSIVE ApplyFunctions(_, _, _, _)
ApplyFunctions(functions, k, st, msg) ==
    IF k > Len(functions) THEN st
    ELSE LET f == functions[k]
             next == CASE f = "messages" -> check_and_get_msg(st, msg)
                       [] f = "pictures" -> check_and_get_pics(st, msg)
                       [] f = "gifs" -> check_and_get_gifs(st, msg)
                       [] f = "videos" -> check_and_get_videos(st, msg)
                       [] f = "files" -> check_and_get_files(st, msg)
                       [] f = "links" -> check_and_get_links(st, msg)
         IN  ApplyFunctions(functions, k + 1, next, msg)

\* self.futures[self.executor.submit(self.dl_file, url, dl_path)] = url, for the
\* n Download Requests of one message: each is queued in the pool at once
submit_mut_deferred(fs, n) == fs

submit(fs, n) == fs \o [k \in 1..n |-> "submitted"]

\* the attributes the check_and_get_* functions update
Attrs ==
    [msgs |-> msgs, pics |-> pics, gifs |-> gifs, videos |-> videos,
     files |-> files, links |-> links, cnt_msgs |-> cnt_msgs,
     cnt_pics |-> cnt_pics, cnt_gifs |-> cnt_gifs, cnt_videos |-> cnt_videos,
     cnt_files |-> cnt_files, cnt_links |-> cnt_links, requests |-> dl_requests]

InitParse ==
    /\ DirectoryCrawled([id \in {ConversA} |-> SummaryOf(id)])
    /\ DumpNotCalled(<<>>)
    /\ ParserNotStarted
    /\ NoTransfer
    /\ mode \in {"report", "dl"}
    /\ data \in DataOptions
    /\ json_msgs \in Inputs
    /\ infiles = <<json_msgs>>
    /\ msg_idx = 1
    /\ StreamsEmpty
    /\ dl_requests = <<>>
    /\ NoConstruction

\* one iteration of `for msg in self.json_msgs` in process_msgs; a Download
\* Request handed to executor.submit is a new future of self.futures
ProcessMsg ==
    /\ parse_pc = "process_msgs"
    /\ msg_idx <= Len(json_msgs)
    /\ LET msg == json_msgs[msg_idx]
           st == IF common_checks(msg)
                 THEN ApplyFunctions(Functions(data), 1, Attrs, msg)
                 ELSE Attrs
       IN  /\ msgs' = st.msgs
           /\ pics' = st.pics
           /\ gifs' = st.gifs
           /\ videos' = st.videos
           /\ files' = st.files
           /\ links' = st.links
           /\ cnt_msgs' = st.cnt_msgs
           /\ cnt_pics' = st.cnt_pics
           /\ cnt_gifs' = st.cnt_gifs
           /\ cnt_videos' = st.cnt_videos
           /\ cnt_files' = st.cnt_files
           /\ cnt_links' = st.cnt_links
           /\ dl_requests' = st.requests
           /\ futures' = submit(futures, Len(st.requests) - Len(dl_requests))
    /\ msg_idx' = msg_idx + 1
    /\ UNCHANGED <<dirVars, dumpVars, xferVars, ctorVars, mode, data, infiles, json_msgs,
                   to_stdout, will_fail, parse_pc, collected, raised_from,
                   loading_cnt, run_flag, loading_state, file_idx,
                   earlier_futures, malformed, reports>>

NextParse == ProcessMsg

SpecParse == InitParse /\ [][NextParse]_vars

\* --------------------------------------------------------------------------
\* Properties of the classifier
\* --------------------------------------------------------------------------

\* the messages process_msgs has been through, and the user-generated ones
Processed == SubSeq(json_msgs, 1, msg_idx - 1)

UserMsgs == SelectSeq(Processed, LAMBDA m : m.action_type = _action_type_user_msg)

Requested == { Functions(data)[k] : k \in 1..Len(Functions(data)) }

MediaCategories == {"pictures", "gifs", "videos", "files"}

KindOf(c) ==
    CASE c = "pictures" -> "photo" [] c = "gifs" -> "animated_image"
      [] c = "videos" -> "video" [] c = "files" -> "file"

UrlOf(c, a) == IF c \in {"pictures", "gifs"} THEN a.preview_url ELSE a.url

StreamOf(c) ==
    CASE c = "pictures" -> pics [] c = "gifs" -> gifs
      [] c = "videos" -> videos [] c = "files" -> files

CountOf(c) ==
    CASE c = "pictures" -> cnt_pics [] c = "gifs" -> cnt_gifs
      [] c = "videos" -> cnt_videos [] c = "files" -> cnt_files

\* the attachments of a list of messages, in message and attachment order
RECURSIVE AttachmentsOf(_)
AttachmentsOf(ms) ==
    IF ms = <<>> THEN <<>> ELSE Head(ms).attachments \o AttachmentsOf(Tail(ms))

\* the attachments of kind c with a retrieval URL, among the user messages
WithUrl(c) ==
    SelectSeq(AttachmentsOf(UserMsgs),
              LAMBDA a : a.attach_type = KindOf(c) /\ UrlOf(c, a) # None)

RequestsFor(c) == SelectSeq(dl_requests, LAMBDA r : r[2][2] = c)

\* C16: a message whose action_type is not the user-generated one is dropped
\* before any category check: the step of process_msgs over it changes no
\* stream and no count and submits no download.
C16_OnlyUserMessages ==
    [][msg_idx' = msg_idx + 1
        /\ json_msgs[msg_idx].action_type # _action_type_user_msg =>
           /\ streamVars' = streamVars
           /\ dl_requests' = dl_requests
           /\ futures' = futures]_vars

C16_Witness ==
    /\ msg_idx = 2
    /\ json_msgs[1].action_type # _action_type_user_msg
    /\ json_msgs[1].attachments = <<Photo, File>>
    /\ mode = "dl"
    /\ data = <<"all">>
    /\ StreamsEmpty
    /\ dl_requests = <<>>

\* C17: for each requested media category, the stream holds one line per
\* attachment of the matching kind whose retrieval URL is present, that URL,
\* and none for the others; in download mode exactly these attachments are
\* submitted as (URL, conversation folder / category / attachment name), and
\* in report mode nothing is submitted.
C17_MediaLineIffUrl ==
    /\ \A c \in MediaCategories \cap Requested :
          /\ StreamOf(c) = [k \in 1..Len(WithUrl(c)) |-> UrlOf(c, WithUrl(c)[k])]
          /\ RequestsFor(c) =
                IF mode = "dl"
                THEN [k \in 1..Len(WithUrl(c)) |->
                        <<UrlOf(c, WithUrl(c)[k]),
                          <<output_convers, c, WithUrl(c)[k].name>>>>]
                ELSE <<>>
    /\ mode = "report" => dl_requests = <<>> /\ futures = <<>>
    /\ Len(futures) = Len(dl_requests)

C17_Witness ==
    /\ mode = "dl"
    /\ data = <<"all">>
    /\ msg_idx = 3
    /\ json_msgs[1].attachments = <<VideoNoUrl>>
    /\ json_msgs[2].attachments = <<Gif, Video>>
    /\ UserMsgs = json_msgs
    /\ videos = <<"https://cdn/v.mp4">>
    /\ gifs = <<"https://cdn/preview/g.gif">>
    /\ Len(dl_requests) = 2

MediaLines == Len(pics) + Len(gifs) + Len(videos) + Len(files)

\* attachments of the user messages that belong to a requested media category
\* and carry its retrieval URL
Contributing ==
    SelectSeq(AttachmentsOf(UserMsgs),
              LAMBDA a : \E c \in MediaCategories \cap Requested :
                            a.attach_type = KindOf(c) /\ UrlOf(c, a) # None)

\* C18: over the four media streams an attachment adds at most one line, to
\* the stream of its own kind only, and an attachment without URL adds no
\* line, no count and no download; one photo with URL and one file without,
\* classified for pictures and files, give one pictures line, no files line
\* and no download into files.
C18_DisjointStreams ==
    /\ MediaLines = Len(Contributing)
    /\ MediaLines <= Len(AttachmentsOf(UserMsgs))
    /\ cnt_pics + cnt_gifs + cnt_videos + cnt_files = Len(Contributing)
    /\ Len(dl_requests) = IF mode = "dl" THEN Len(Contributing) ELSE 0
    /\ \A c \in MediaCategories :
          \A k \in 1..Len(StreamOf(c)) :
             \E a \in AttachmentShapes :
                a.attach_type = KindOf(c) /\ StreamOf(c)[k] = UrlOf(c, a)
    /\ (/\ Len(UserMsgs) = 1
        /\ UserMsgs[1].attachments = <<Photo, FileNoUrl>>
        /\ Requested = {"pictures", "files"})
          => /\ Len(pics) = 1
             /\ files = <<>>
             /\ cnt_files = 0
             /\ RequestsFor("files") = <<>>

C18_Witness ==
    /\ msg_idx = 2
    /\ Len(UserMsgs) = 1
    /\ UserMsgs[1].attachments = <<Photo, FileNoUrl>>
    /\ data = <<"files", "pictures">>
    /\ mode = "dl"
    /\ pics = <<"https://cdn/preview/p.jpg">>
    /\ Len(dl_requests) = 1

\* C19: when messages is requested, every user-generated message adds exactly
\* one record to the messages stream, with or without attachments, in message
\* order, and cnt_msgs is the number of user-generated messages gone through.
C19_OneRecordPerMessage ==
    "messages" \in Requested =>
        /\ Len(msgs) = Len(UserMsgs)
        /\ cnt_msgs = Len(UserMsgs)
        /\ \A k \in 1..Len(UserMsgs) :
              /\ msgs[k].date = UserMsgs[k].timestamp \div 1000
              /\ msgs[k].fbid = UserMsgs[k].author[2]
              /\ msgs[k].body = UserMsgs[k].body

C19_Witness ==
    /\ data = <<"links", "messages">>
    /\ msg_idx = 3
    /\ Len(UserMsgs) = 2
    /\ UserMsgs[1].attachments = <<PhotoNoUrl>>
    /\ UserMsgs[2].attachments = <<>>
    /\ Len(msgs) = 2
    /\ msgs[1].date = 1
    /\ msgs[2].date = 2

\* the lines one message owes to the links stream: its share attachments with
\* a URI, in attachment order, then its ranges, in range order
LinksOfMsg(m) ==
    LET shares == SelectSeq(m.attachments,
                            LAMBDA a : a.attach_type = "share" /\ a.share.uri # None)
        ranges == IF m.ranges = NoRanges THEN <<>> ELSE m.ranges[1]
    IN  [k \in 1..Len(shares) |-> ShareLine(shares[k].share.uri)]
           \o [k \in 1..Len(ranges) |-> <<ranges[k].entity.url>>]

RECURSIVE LinksOf(_)
LinksOf(ms) == IF ms = <<>> THEN <<>> ELSE LinksOfMsg(Head(ms)) \o LinksOf(Tail(ms))

\* C20: the links stream lists, message after message, the links of the share
\* attachments of the message in attachment order and then the URL of every
\* one of its ranges in range order; both kinds are counted by cnt_links.
C20_SharesThenRanges ==
    "links" \in Requested =>
        /\ links = LinksOf(UserMsgs)
        /\ cnt_links = Len(links)

C20_Witness ==
    /\ "links" \in Requested
    /\ msg_idx = 3
    /\ Len(UserMsgs) = 2
    /\ UserMsgs[1].attachments = <<ShareWrapped, ShareRaw>>
    /\ UserMsgs[1].ranges = <<<<Range("https://example.org/r2"),
                                Range("https://example.org/r1")>>>>
    /\ UserMsgs[2].attachments = <<ShareRaw>>
    /\ links = << <<"https://example.com/x">>, RawUri,
                  <<"https://example.org/r2">>, <<"https://example.org/r1">>,
                  RawUri >>
    /\ cnt_links = 5

\* the share attachments of a message that carry a URI
SharesOf(m) ==
    SelectSeq(m.attachments, LAMBDA a : a.attach_type = "share" /\ a.share.uri # None)

\* the only URI of the model that matches the wrapper pattern, and its target
ExpectedLink(uri) == IF uri = WrappedUri THEN <<"https://example.com/x">> ELSE uri

\* C21: the step of process_msgs over a user message adds to the links stream
\* exactly one line per share attachment with a URI, before the lines of the
\* ranges: the decoded target when the URI matches the wrapper pattern, the
\* URI itself when it does not.
C21_ShareUnwrapped ==
    [][msg_idx' = msg_idx + 1 /\ "links" \in Requested
        /\ json_msgs[msg_idx].action_type = _action_type_user_msg =>
           LET m == json_msgs[msg_idx]
               shares == SharesOf(m)
               ranges == IF m.ranges = NoRanges THEN <<>> ELSE m.ranges[1]
           IN  /\ Len(links') = Len(links) + Len(shares) + Len(ranges)
               /\ SubSeq(links', 1, Len(links)) = links
               /\ \A k \in 1..Len(shares) :
                     links'[Len(links) + k] = ExpectedLink(shares[k].share.uri)]_vars

C21_Witness ==
    /\ "links" \in Requested
    /\ msg_idx = 3
    /\ Len(UserMsgs) = 2
    /\ UserMsgs[1].attachments = <<ShareWrapped, ShareRaw>>
    /\ UserMsgs[1].ranges = NoRanges
    /\ UserMsgs[2].attachments = <<ShareHeadOnly>>
    /\ links = << <<"https://example.com/x">>, RawUri, HeadOnlyUri >>

Written == { reports[k] : k \in 1..Len(reports) }

\* C22: when a file of infile_json is not JSON, parse is left by the error of
\* json.load at that file: the files before it are the only ones loaded and
\* reported, the file itself has no report, no later file is ever loaded, and
\* nothing changes the reports afterwards.
C22_MalformedFileAborts ==
    /\ [](\A i \in malformed :
             /\ file_idx <= i
             /\ i \notin Written
             /\ file_idx = i => parse_pc = "aborted")
    /\ [](parse_pc = "aborted" =>
             /\ file_idx \in malformed
             /\ reports = [k \in 1..(file_idx - 1) |-> k])
    /\ [][parse_pc = "aborted" =>
             /\ parse_pc' = "aborted"
             /\ file_idx' = file_idx
             /\ reports' = reports
             /\ futures' = futures]_vars

C22_Witness ==
    /\ parse_pc = "aborted"
    /\ malformed = {2}
    /\ file_idx = 2
    /\ reports = <<1>>
    /\ NFutures = 2
    /\ Failed # {}

\* C26 as stated: in download mode the reports of a file are written only
\* when every download of the file has ended.
C26_ReportsAfterOutcomes ==
    parse_pc \in {"process_msgs", "as_completed", "join", "returned", "raised"}
        /\ file_idx \in Written => AllTerminal

\* C26 amended: the reports of a file are written once, when process_msgs has
\* gone through the file and every download of the file has been submitted,
\* and before wait_threads collects any outcome; they are on disk during the
\* whole wait, whatever the outcomes are.
C26_ReportsBeforeWait ==
    /\ [](parse_pc = "process_msgs" => file_idx \notin Written)
    /\ [](parse_pc \in {"as_completed", "join", "returned", "raised"} =>
             reports = [k \in 1..file_idx |-> k])
    /\ [][reports' # reports =>
             /\ parse_pc = "process_msgs"
             /\ parse_pc' = "as_completed"
             /\ collected = <<>>
             /\ futures' = futures
             /\ reports' = Append(reports, file_idx)]_vars

C26_Witness ==
    /\ parse_pc = "as_completed"
    /\ file_idx \in Written
    /\ collected = <<>>
    /\ Running # {}
    /\ \E i \in 1..NFutures : futures[i] = "submitted"

\* --------------------------------------------------------------------------
\* FBDumper.__init__, FBParser.__init__ and the entry of FBParser.parse
\* --------------------------------------------------------------------------

\* bool(x) of Python for the argument values below: None, the empty string
\* and the empty list are falsy
bool(x) == x \notin {"None", "", "[]"}

RawDatas == {"None", "", "cookie: c"}

Paths == {"None", "", "post_data.txt"}

ChunkSizes == {-1, 0, 1, 2000}

Timers == {-1, 0, 1}

JsonMsgs == {"None", "[]", "[msg]"}

InfileJsons == {"None", "[]", "[complete.json]"}

Threads == {-1, 0, 1, 4}

\* the calls FBDumper(None, user_raw_data, infile_user_raw_data, chunk_size, timer)
DumperCalls ==
    [class : {"FBDumper"}, user_raw_data : RawDatas,
     infile_user_raw_data : Paths, chunk_size : ChunkSizes, timer : Timers,
     json_msgs : {"None"}, infile_json : {"None"}, threads : {4},
     mode : {"report"}]

\* the calls FBParser(user_raw_data, json_msgs, infile_json, mode, threads=threads)
ParserCalls ==
    [class : {"FBParser"}, user_raw_data : {"", "cookie: c"},
     infile_user_raw_data : {"None"}, chunk_size : {2000}, timer : {1},
     json_msgs : JsonMsgs, infile_json : InfileJsons, threads : Threads,
     mode : {"report", "dl"}]

FBDumper_check_mut_no_timer(user_raw_data, infile_user_raw_data, chunk, timer) ==
    IF bool(user_raw_data) = bool(infile_user_raw_data) THEN "ValueError"
    ELSE IF chunk <= 0 THEN "ValueError"
    ELSE "none"

\* the argument checks of FBDumper.__init__, in the order of the code
FBDumper_check(user_raw_data, infile_user_raw_data, chunk, timer) ==
    IF bool(user_raw_data) = bool(infile_user_raw_data) THEN "ValueError"
    ELSE IF chunk <= 0 THEN "ValueError"
    ELSE IF timer < 0 THEN "ValueError"
    ELSE "none"

FBParser_check_mut_no_threads(json, infile, nthreads) ==
    IF bool(json) = bool(infile) THEN "ValueError"
    ELSE "none"

\* the argument checks of FBParser.__init__, in the order of the code
FBParser_check(json, infile, nthreads) ==
    IF bool(json) = bool(infile) THEN "ValueError"
    ELSE IF nthreads <= 0 THEN "ValueError"
    ELSE "none"

\* the attribute __init__ assigns for the input: self.json_msgs when json_msgs
\* is truthy, self.infile_json otherwise; never both
InputAttr(json) == IF bool(json) THEN {"json_msgs"} ELSE {"infile_json"}

InitCtor ==
    /\ DirectoryCrawled([id \in {ConversA} |-> SummaryOf(id)])
    /\ DumpNotCalled(<<>>)
    /\ ParserNotStarted
    /\ NoTransfer
    /\ NothingToClassify
    /\ ctor_call \in DumperCalls \cup ParserCalls
    /\ ctor_pc = "called"
    /\ ctor_exc = "none"
    /\ ctor_attrs = {}
    /\ ctor_requests = 0

\* FBDumper(...) up to self.timer = timer
FBDumperInit ==
    /\ ctor_pc = "called"
    /\ ctor_call.class = "FBDumper"
    /\ LET exc == FBDumper_check(ctor_call.user_raw_data,
                                 ctor_call.infile_user_raw_data,
                                 ctor_call.chunk_size, ctor_call.timer)
       IN  /\ ctor_exc' = exc
           /\ ctor_pc' = IF exc = "none" THEN "crawl" ELSE "raised"
           /\ ctor_attrs' =
                 IF bool(ctor_call.user_raw_data) = bool(ctor_call.infile_user_raw_data)
                 THEN {"convers_ids"}
                 ELSE IF ctor_call.chunk_size <= 0
                 THEN {"convers_ids", "user_raw_data"}
                 ELSE IF ctor_call.timer < 0
                 THEN {"convers_ids", "user_raw_data", "chunk_size"}
                 ELSE {"convers_ids", "user_raw_data", "chunk_size", "timer"}
    /\ UNCHANGED <<dirVars, dumpVars, dlVars, xferVars, classVars, ctor_call,
                   ctor_requests>>

\* FBParser(...) up to self.threads = threads
FBParserInit ==
    /\ ctor_pc = "called"
    /\ ctor_call.class = "FBParser"
    /\ LET exc == FBParser_check(ctor_call.json_msgs, ctor_call.infile_json,
                                 ctor_call.threads)
       IN  /\ ctor_exc' = exc
           /\ ctor_pc' = IF exc = "none" THEN "fb_dumper" ELSE "raised"
           /\ ctor_attrs' =
                 IF bool(ctor_call.json_msgs) = bool(ctor_call.infile_json) THEN {}
                 ELSE InputAttr(ctor_call.json_msgs) \cup
                      (IF exc = "none" THEN {"mode", "data", "output", "threads"}
                       ELSE {"mode", "data", "output"})
    /\ UNCHANGED <<dirVars, dumpVars, dlVars, xferVars, classVars, ctor_call,
                   ctor_requests>>

\* fb_dumper = FBDumper("", user_raw_data, chunk_size=2000, output=output),
\* up to the same point of FBDumper.__init__
InnerDumperInit ==
    /\ ctor_pc = "fb_dumper"
    /\ LET exc == FBDumper_check(ctor_call.user_raw_data, "None", 2000, 1)
       IN  /\ ctor_exc' = exc
           /\ ctor_pc' = IF exc = "none" THEN "crawl" ELSE "raised"
    /\ UNCHANGED <<dirVars, dumpVars, dlVars, xferVars, classVars, ctor_call,
                   ctor_attrs, ctor_requests>>

\* get_post_data and get_all_convers_metadata, which sends the first request
\* of the directory crawl, then the attributes assigned after it
Crawl ==
    /\ ctor_pc = "crawl"
    /\ ctor_requests' = ctor_requests + 1
    /\ ctor_pc' = "constructed"
    /\ ctor_attrs' = ctor_attrs \cup
          (IF ctor_call.class = "FBDumper"
           THEN {"output", "headers", "post_data", "convers", "participants"}
           ELSE IF ctor_call.mode = "dl"
                THEN {"convers", "participants", "executor", "futures"}
                ELSE {"convers", "participants", "executor"})
    /\ UNCHANGED <<dirVars, dumpVars, dlVars, xferVars, classVars, ctor_call,
                   ctor_exc>>

\* parse() up to `if self.infile_json:`; reading an attribute that was never
\* assigned raises AttributeError
ParseEntry ==
    /\ ctor_pc = "constructed"
    /\ ctor_call.class = "FBParser"
    /\ IF {"data", "infile_json"} \subseteq ctor_attrs
       THEN ctor_pc' = "parse" /\ ctor_exc' = "none"
       ELSE ctor_pc' = "raised_in_parse" /\ ctor_exc' = "AttributeError"
    /\ UNCHANGED <<dirVars, dumpVars, dlVars, xferVars, classVars, ctor_call,
                   ctor_attrs, ctor_requests>>

NextCtor == FBDumperInit \/ FBParserInit \/ InnerDumperInit \/ Crawl \/ ParseEntry

SpecCtor == InitCtor /\ [][NextCtor]_vars

\* --------------------------------------------------------------------------
\* Properties of the constructors
\* --------------------------------------------------------------------------

\* C23: a parser constructed with the messages in memory (json_msgs) is
\* usable: parse runs on it without reading an attribute that was never
\* assigned, that is, without AttributeError.
C23_JsonMsgsUsable ==
    (ctor_call.class = "FBParser" /\ "json_msgs" \in ctor_attrs)
        => ctor_exc # "AttributeError"

\* an input is provided when it is neither None nor empty
Provided(x) == x # "None" /\ x # "" /\ x # "[]"

ExactlyOne(a, b) == (Provided(a) /\ ~Provided(b)) \/ (~Provided(a) /\ Provided(b))

InvalidCall ==
    IF ctor_call.class = "FBDumper"
    THEN \/ ~ExactlyOne(ctor_call.user_raw_data, ctor_call.infile_user_raw_data)
         \/ ctor_call.chunk_size <= 0
         \/ ctor_call.timer < 0
    ELSE \/ ~ExactlyOne(ctor_call.json_msgs, ctor_call.infile_json)
         \/ ctor_call.threads <= 0

\* C24: a constructor called with invalid arguments (not exactly one of the
\* two inputs, chunk_size <= 0, timer < 0, threads <= 0) leaves with
\* ValueError, and no request was sent before it: a call that raised
\* ValueError, and an invalid call at any point, has sent no request.
C24_ValueErrorBeforeNetwork ==
    /\ ctor_exc = "ValueError" => ctor_requests = 0
    /\ InvalidCall => ctor_requests = 0
    /\ (InvalidCall /\ ctor_pc # "called")
          => (ctor_exc = "ValueError" /\ ctor_pc = "raised")

C24_Witness ==
    /\ ctor_call.class = "FBParser"
    /\ ExactlyOne(ctor_call.json_msgs, ctor_call.infile_json)
    /\ ctor_call.threads = 0
    /\ ctor_pc = "raised"
    /\ ctor_exc = "ValueError"

\* the cursor of the history crawl: the request that produced the last
\* response carried offset (NResp - 1) * chunk_size and, after the first one,
\* the timestamp of the first record of the chunk before it; while the crawl
\* is running the locals hold the same for the request to come
CursorFollowsFirstRecord ==
    /\ NResp >= 1 =>
        /\ last_request.offset = (NResp - 1) * chunk_size
        /\ last_request.limit = chunk_size
        /\ (dump_pc \in {"crawl", "written"} \/ dump_exc \notin {"none", "FBUnknownConvers"})
              => last_request.id = dump_ids[ci]
        /\ last_request.timestamp =
              IF NResp = 1 THEN 0 ELSE responses[NResp - 1].actions[1]
    /\ dump_pc = "crawl" =>
        /\ offset = NResp * chunk_size
        /\ timestamp = IF NResp = 0 THEN 0 ELSE responses[NResp].actions[1]

\* ts is no later than any record of the first n responses
OldestOf(ts, n) ==
    \A i \in 1..n : \A a \in 1..Len(responses[i].actions) :
        ts <= responses[i].actions[a]

\* C25 as stated: the first request carries offset 0 and timestamp 0, request
\* i+1 carries offset i * chunk_size and the timestamp of the first record of
\* the chunk of request i, and that timestamp is the oldest received so far.
C25_CursorIsOldestSoFar ==
    /\ CursorFollowsFirstRecord
    /\ NResp >= 2 => OldestOf(last_request.timestamp, NResp - 1)

\* C25 amended: the offsets and the first-record rule as stated; the
\* continuation timestamp is the oldest received so far when timestamps ascend
\* inside each chunk and each later chunk is older than every earlier one.
C25_CursorFollowsFirstRecord ==
    /\ CursorFollowsFirstRecord
    /\ (/\ NResp >= 2
        /\ \A i \in 1..NResp : StrictlyAscending(responses[i].actions)
        /\ LaterChunksOlder)
       => OldestOf(last_request.timestamp, NResp - 1)

\* the third request of a crawl went out with the second chunk's first record,
\* the oldest of the three records received until then
C25_Witness ==
    /\ NResp = 3
    /\ responses[1].actions = <<3>>
    /\ responses[2].actions = <<1, 2>>
    /\ last_request.offset = 2 * chunk_size
    /\ last_request.timestamp = 1

\* --------------------------------------------------------------------------
\* Properties of the participant directory
\* --------------------------------------------------------------------------

\* identifiers carried by the participants of a page, and the name the last
\* record of the page gives to one of them
PageIds(ps) == { ps[k].fbid : k \in 1..Len(ps) }

LastNameIn(ps, u) ==
    LET at == { k \in 1..Len(ps) : ps[k].fbid = u }
    IN  ps[CHOOSE k \in at : \A l \in at : l <= k].name

\* the page carries the other participant of each of its direct conversations
CarriesBoth(page) ==
    \A k \in 1..Len(page.others) :
        page.others[k] # "none" => page.others[k] \in PageIds(page.participants)

\* C30: every page that is merged overwrites the directory entries of the
\* participants it carries and leaves the other entries alone, so that the
\* directory holds for each identifier the name given by the last page that
\* contained it; each direct conversation of the page gets the directory name
\* of its other participant as it is after the merge of that page's
\* participants; and a well-formed page that carries the other participant of
\* each of its direct conversations is merged without an exception.
C30_LastWriteWins ==
    [][LET page == json_data'
           ids == PageIds(page.participants)
       IN  /\ dir_exc' = "none" =>
                /\ DOMAIN participants' = DOMAIN participants \cup ids
                /\ \A u \in DOMAIN participants' :
                      participants'[u] = IF u \in ids
                                         THEN LastNameIn(page.participants, u)
                                         ELSE participants[u]
                /\ \A k \in 1..Len(page.others) :
                      page.others[k] # "none" =>
                          LET c == convers'[ThreadFbid(convers_status, list_offset + k)]
                          IN  /\ c.type = "user"
                              /\ c.name = participants'[page.others[k]]
           /\ (page.well_formed /\ CarriesBoth(page)) => dir_exc' = "none"]_vars

\* the second page renamed u1: the direct conversation of the first page keeps
\* the earlier name, the one of the second page has the later name
C30_Witness ==
    /\ Len(list_requests) = 2
    /\ dir_exc = "none"
    /\ json_data.participants = <<[fbid |-> "u1", name |-> <<"user", "b">>]>>
    /\ json_data.others = <<"u1">>
    /\ participants = [u \in {"u1"} |-> <<"user", "b">>]
    /\ {ThreadFbid(1, 1), ThreadFbid(1, chunk_size_convers + 1)} \subseteq DOMAIN convers
    /\ convers[ThreadFbid(1, 1)].name = <<"user", "a">>
    /\ convers[ThreadFbid(1, chunk_size_convers + 1)].name = <<"user", "b">>

\* the categories of the request, whatever its order
IsAsked(t) == \E k \in 1..Len(data) : data[k] = "all" \/ data[k] = t

AllStreamOf(c) ==
    CASE c = "messages" -> msgs [] c = "links" -> links [] OTHER -> StreamOf(c)

AllCountOf(c) ==
    CASE c = "messages" -> cnt_msgs [] c = "links" -> cnt_links [] OTHER -> CountOf(c)

\* C28: the checks applied to a user-generated message are the requested
\* categories, each once, in the order messages, pictures, gifs, videos,
\* files, links whatever the order of the request; a requested category has
\* been through every user-generated message once (one messages record per
\* message, one media line per attachment with URL), the Download Requests of
\* one message come in that order, and a category that was not requested has
\* an empty stream, a zero count and no Download Request.
C28_RequestedInFixedOrder ==
    /\ Functions(data) =
          SelectSeq(<<"messages", "pictures", "gifs", "videos", "files", "links">>,
                    IsAsked)
    /\ IsAsked("messages") => cnt_msgs = Len(UserMsgs)
    /\ \A c \in MediaCategories : IsAsked(c) => CountOf(c) = Len(WithUrl(c))
    /\ Len(UserMsgs) = 1 =>
          dl_requests = RequestsFor("pictures") \o RequestsFor("gifs")
                           \o RequestsFor("videos") \o RequestsFor("files")
    /\ \A c \in {"messages", "pictures", "gifs", "videos", "files", "links"} :
          ~IsAsked(c) =>
              /\ AllStreamOf(c) = <<>>
              /\ AllCountOf(c) = 0
              /\ c \in MediaCategories => RequestsFor(c) = <<>>

\* files and pictures were requested in that order; the message carries a file
\* and then a photo, and the picture was checked first
C28_Witness ==
    /\ mode = "dl"
    /\ data = <<"files", "pictures">>
    /\ msg_idx = 2
    /\ Len(UserMsgs) = 1
    /\ UserMsgs[1].attachments = <<File, Photo>>
    /\ UserMsgs[1].body # None
    /\ Len(dl_requests) = 2
    /\ dl_requests[1][2][2] = "pictures"
    /\ dl_requests[2][2][2] = "files"
    /\ msgs = <<>> /\ cnt_msgs = 0
    /\ links = <<>>

\* C29: after any prefix of the messages each of the six counts is the number
\* of entries of its stream, and in download mode the number of Download
\* Requests submitted is the sum of the pictures, gifs, videos and files
\* counts.
C29_CountsMatchStreams ==
    /\ cnt_msgs = Len(msgs)
    /\ cnt_pics = Len(pics)
    /\ cnt_gifs = Len(gifs)
    /\ cnt_videos = Len(videos)
    /\ cnt_files = Len(files)
    /\ cnt_links = Len(links)
    /\ mode = "dl" =>
          /\ Len(dl_requests) = cnt_pics + cnt_gifs + cnt_videos + cnt_files
          /\ Len(futures) = Len(dl_requests)

\* two messages in download mode left entries in the messages, gifs, videos
\* and links streams, and two downloads
C29_Witness ==
    /\ mode = "dl"
    /\ data = <<"all">>
    /\ msg_idx = 3
    /\ cnt_msgs = 2
    /\ cnt_gifs = 1 /\ cnt_videos = 1
    /\ cnt_links >= 1
    /\ cnt_pics = 0
    /\ Len(dl_requests) = 2

\* --------------------------------------------------------------------------
\* process_msgs and the worker pool together
\* --------------------------------------------------------------------------

\* attachments of the messages the pool is observed with
PoolAttachments == { <<Photo, FileNoUrl>>, <<Gif, Video>>, <<ErrorAttachment, Photo>> }

PoolInputs ==
    { input \in Inputs :
        \A k \in 1..Len(input) :
            /\ input[k].attachments \in PoolAttachments \cup { <<Photo, File>> }
            /\ input[k].ranges = NoRanges
            /\ input[k].author = <<"fbid:", "u1">> }

\* a parser in DL mode after init_parser_for_next, with the pool of __init__
InitPool ==
    /\ DirectoryCrawled([id \in {ConversA} |-> SummaryOf(id)])
    /\ DumpNotCalled(<<>>)
    /\ NoTransfer
    /\ NoConstruction
    /\ to_stdout = TRUE
    /\ will_fail \in { {}, {1} }
    /\ parse_pc = "process_msgs"
    /\ futures = <<>>
    /\ collected = <<>>
    /\ raised_from = 0
    /\ loading_cnt = 0
    /\ run_flag = FALSE
    /\ loading_state = "none"
    /\ file_idx = 1
    /\ earlier_futures = <<>>
    /\ malformed = {}
    /\ reports = <<>>
    /\ mode = "dl"
    /\ data = <<"all">>
    /\ json_msgs \in PoolInputs
    /\ infiles = <<json_msgs>>
    /\ msg_idx = 1
    /\ StreamsEmpty
    /\ dl_requests = <<>>

NextPool == ProcessMsg \/ Workers

SpecPool == InitPool /\ [][NextPool]_vars

\* the Download Requests one message gives rise to when every category is
\* requested: its attachments of a media kind that carry the kind's URL
EligibleOf(msg) ==
    IF msg.action_type # _action_type_user_msg THEN <<>>
    ELSE SelectSeq(msg.attachments,
                   LAMBDA a : \E c \in MediaCategories :
                                 a.attach_type = KindOf(c) /\ UrlOf(c, a) # None)

EmptySentinel(resp) ==
    resp.err = NoError /\ resp.has_actions /\ resp.actions = <<>> /\ resp.end

\* C33: when the end_of_history flag comes with a response of zero message
\* records, the crawl of the conversation completes: no exception leaves dump
\* and the messages of the earlier requests are written.
C33_EmptySentinelCompletes ==
    (NResp >= 1 /\ EmptySentinel(LastResponse))
        => /\ dump_exc = "none"
           /\ dump_pc = "written"
           /\ dump_files[dump_ids[ci]] = messages

\* C32: every entry of the index has a kind and a display name, and they are
\* those of its own summary: a kind of "user" or "group", a name, and for a
\* group the name its own summary gives, whatever the thread_type of the
\* summaries of the page.
C32_OwnKindAndName ==
    dir_pc = "done" =>
        \A id \in DOMAIN self_convers[1] :
            LET c == self_convers[1][id]
            IN  /\ c.type \in {"user", "group"}
                /\ c.name # NoName
                /\ c.type = "group" => c.name = GroupName(id)

\* C35: whenever wait_threads has finished, by returning or by raising the
\* failure of a download again, the loading thread has been told to stop
\* (run_flag is false) and has terminated.
C35_LoadingThreadStopped ==
    parse_pc \in {"returned", "raised"} =>
        /\ ~run_flag
        /\ loading_state = "terminated"

\* --------------------------------------------------------------------------
\* parse over several input files
\* --------------------------------------------------------------------------

\* the content of one input file: user-generated messages with at most one
\* attachment to download each
FileInputs ==
    { input \in Inputs :
        \A k \in 1..Len(input) :
            /\ input[k].attachments \in { <<VideoNoUrl>>, <<Photo, FileNoUrl>> }
            /\ input[k].ranges = NoRanges
            /\ input[k].author = <<"fbid:", "u1">> }

\* parse is called on a parser constructed with the files of infile_json
InitFiles ==
    /\ DirectoryCrawled([id \in {ConversA} |-> SummaryOf(id)])
    /\ DumpNotCalled(<<>>)
    /\ NoTransfer
    /\ NoConstruction
    /\ to_stdout = TRUE
    /\ will_fail \in { {}, {1} }
    /\ parse_pc = "parse"
    /\ futures = <<>>
    /\ collected = <<>>
    /\ raised_from = 0
    /\ loading_cnt = 0
    /\ run_flag = FALSE
    /\ loading_state = "none"
    /\ file_idx = 0
    /\ earlier_futures = <<>>
    /\ malformed = {}
    /\ reports = <<>>
    /\ mode \in {"report", "dl"}
    /\ data = <<"all">>
    /\ infiles \in [1..Len(infile_json) -> FileInputs]
    /\ json_msgs = <<>>
    /\ msg_idx = 1
    /\ StreamsEmpty
    /\ dl_requests = <<>>

\* the owner of the parser sets parser.quit = True during a run
OwnerSetsQuit == parse_pc = "as_completed" /\ SetQuit

NextFiles ==
    \/ InitParserForNext
    \/ ProcessMsg
    \/ WaitThreadsCall
    \/ Workers
    \/ (\E i \in 1..NFutures : Collect(i))
    \/ LoopExit
    \/ LoadingExit
    \/ JoinReturns
    \/ OwnerSetsQuit

SpecFiles == InitFiles /\ [][NextFiles]_vars

\* the run state of the current file comes from the messages of that file
\* gone through so far and from its own downloads
OnlyCurrentFile ==
    file_idx >= 1 =>
        /\ json_msgs = infiles[file_idx]
        /\ cnt_msgs = Len(UserMsgs)
        /\ cnt_links = 0
        /\ \A c \in MediaCategories :
              /\ StreamOf(c) = [k \in 1..Len(WithUrl(c)) |-> UrlOf(c, WithUrl(c)[k])]
              /\ CountOf(c) = Len(WithUrl(c))
        /\ Len(futures) = Len(dl_requests)
        /\ Len(dl_requests) =
              IF mode = "dl"
              THEN cnt_pics + cnt_gifs + cnt_videos + cnt_files ELSE 0
        /\ parse_pc \in {"as_completed", "join", "returned"} /\ mode = "dl"
              => loading_cnt = NFutures - Len(collected)

\* C31: when the classification of a file starts, the six streams are empty,
\* the six counts are 0, quit is false and self.futures is empty, and from
\* then on the streams, the counts, the futures and the pending count are
\* those of the messages and Download Requests of that file alone.
C31_NoLeakBetweenFiles ==
    /\ [][parse_pc' = "process_msgs" /\ file_idx' = file_idx + 1 =>
            /\ msgs' = <<>> /\ pics' = <<>> /\ gifs' = <<>>
            /\ videos' = <<>> /\ files' = <<>> /\ links' = <<>>
            /\ cnt_msgs' = 0 /\ cnt_pics' = 0 /\ cnt_gifs' = 0
            /\ cnt_videos' = 0 /\ cnt_files' = 0 /\ cnt_links' = 0
            /\ quit' = FALSE
            /\ futures' = <<>>
            /\ collected' = <<>>
            /\ loading_cnt' = 0]_vars
    /\ []OnlyCurrentFile

\* the second file is about to be classified after a first file that left
\* lines, counts, two downloads and a set quit flag
C31_Witness ==
    /\ file_idx = 2
    /\ parse_pc = "process_msgs"
    /\ msg_idx = 1
    /\ mode = "dl"
    /\ Len(infiles[1]) = 2
    /\ Len(infiles[2]) >= 1
    /\ Len(earlier_futures) = 2
    /\ at_quit # <<>>
    /\ ~quit
    /\ StreamsEmpty
    /\ futures = <<>>
    /\ reports = <<1>>

\* C34: no two Download Requests of one batch have the same destination path,
\* so that no two transfers of the batch write the same file: of two requests
\* of self.futures, whatever the names of their attachments, the destination
\* paths differ, and no file saved by one transfer is saved again by another.
C34_DistinctDestinations ==
    \A i, j \in 1..Len(dl_requests) :
        i < j =>
            /\ dl_requests[i][2] # dl_requests[j][2]
            /\ ~(futures[i] = "saved" /\ futures[j] = "saved"
                   /\ dl_requests[i][2] = dl_requests[j][2])

====
